---- MODULE Spec2Model ----
(***************************************************************************)
(* LT7683 TFT controller driver (src/src/lib.rs).                          *)
(*                                                                         *)
(* The driver core owns a transport (SPI or 8-bit parallel), a reset pin   *)
(* and a DisplayConfig.  Every driver method is a straight-line list of    *)
(* register accesses, delays and reset-pin operations, with two bounded    *)
(* polling loops; every transport call is made with `?`, so the first      *)
(* failing call ends the whole method with that error.  A method is        *)
(* modelled as its instruction list; one action executes one transport     *)
(* call, one delay or one pin operation and appends it to `log`.           *)
(***************************************************************************)
EXTENDS Integers, Sequences, FiniteSets, TLC

----------------------------------------------------------------------------
(* Register addresses: enum Register, lib.rs 420-715 (#[repr(u8)]).        *)
Srr == 0
Ccr == 1
Macr == 2
Icr == 3
Ppllc1 == 5
Ppllc2 == 6
Mpllc1 == 7
Mpllc2 == 8
Cpllc1 == 9
Cpllc2 == 10
Mpwctr == 16
Dpcr == 18
Pcsr == 19
Hdwr == 20
Hdwftr == 21
Hndr == 22
Hndftr == 23
Hstr == 24
Hpwr == 25
Vdhr1 == 26
Vdhr2 == 27
Vndr1 == 28
Vndr2 == 29
Vstr == 30
Vpwr == 31
Misa1 == 32
Misa2 == 33
Misa3 == 34
Misa4 == 35
Miw1 == 36
Miw2 == 37
Mwulx1 == 38
Mwulx2 == 39
Mwuly1 == 40
Mwuly2 == 41
Cvssa1 == 80
Cvssa2 == 81
Cvssa3 == 82
Cvssa4 == 83
CvsImwth1 == 84
CvsImwth2 == 85
AwulX1 == 86
AwulX2 == 87
AwulY1 == 88
AwulY2 == 89
AwWth1 == 90
AwWth2 == 91
AwHt1 == 92
AwHt2 == 93
AwColor == 94
Dcr0 == 103
Dlhsr1 == 104
Dlhsr2 == 105
Dlvsr1 == 106
Dlvsr2 == 107
Dlher1 == 108
Dlher2 == 109
Dlver1 == 110
Dlver2 == 111
Dcr1 == 118
Fgcr == 210
Fgcg == 211
Fgcb == 212
Sdrar == 224
Sdrmd == 225
SdrRef1 == 226
SdrRef2 == 227
Sdrcr == 228

(* The remaining registers of the register map (registers.rs). *)
Mrwdp == 4
Gtccr == 60
Btcr == 61
Curhs == 62
Curvs == 63
FCurx1 == 99
FCurx2 == 100
FCury1 == 101
FCury2 == 102
Dtph1 == 112
Dtph2 == 113
Dtpv1 == 114
Dtpv2 == 115
EllA1 == 119
EllA2 == 120
EllB1 == 121
EllB2 == 122
Dehr1 == 123
Dehr2 == 124
Devr1 == 125
Devr2 == 126
\* A map in which BteCtrl0 carries the address of BteCtrl1.
BteCtrl0_as_ctrl1 == 144 + 1

BteCtrl0 == 144

BteCtrl1 == 145
BteColr == 146
S0Str0 == 147
S0Str1 == 148
S0Str2 == 149
S0Str3 == 150
S0Wth0 == 151
S0Wth1 == 152
S0X0 == 153
S0X1 == 154
S0Y0 == 155
S0Y1 == 156
S1Str0 == 157
S1Str1 == 158
S1Str2 == 159
S1Str3 == 160
DtStr0 == 167
DtStr1 == 168
DtStr2 == 169
DtStr3 == 170
DtWth0 == 171
DtWth1 == 172
DtX0 == 173
DtX1 == 174
DtY0 == 175
DtY1 == 176
BteWth0 == 177
BteWth1 == 178
BteHig0 == 179
BteHig1 == 180
Ccr0 == 204
Ccr1 == 205
Fldr == 208
F2fssr == 209
Bgcr == 213
Bgcg == 214
Bgcb == 215
CgramStr0 == 219
Pmu == 223
Gpioad == 240
Gpioa == 241
Gpiob == 242
Gpiocd == 243
Gpioc == 244
Gpiodd == 245
Gpiod == 246


(* enum ColorDepth, lib.rs 717-725. *)
Bpp8 == 0
Bpp16 == 1
Bpp24 == 2

----------------------------------------------------------------------------
(* Bounds of the model. *)

\* Inside init, where two polling loops follow each other, the chip answers
\* "done" on one of the first MaxEarly attempts, on the last attempt, or never.
MaxEarly == 1

(* The most reads of the block-transfer control register that find the      *)
(* engine still busy during one wait.                                       *)
MaxBtePolls == 2

\* A polling loop with one attempt more.
PollLimitLong == 100 + 1

\* A polling loop that gives up one attempt short.
PollLimitShort == 100 - 1

\* `for _ in 0..100` of wait_sdram_ready and software_reset.
PollLimit == 100

----------------------------------------------------------------------------
(* Integer helpers: Rust's `as u8`, `>> 8`, bit tests, u16 arithmetic.      *)

as_u8(x) == x % 256
shr7(x) == x \div 128

shr8(x) == x \div 256
Bit(v, n) == (v \div (2 ^ n)) % 2
u16_sub(a, b) == (a - b + 65536) % 65536
u16_mul(a, b) == (a * b) % 65536

----------------------------------------------------------------------------
(* DisplayConfig, lib.rs 16-43. *)

DefaultConfig ==
  [width |-> 1024, height |-> 600,
   h_back_porch |-> 160, h_front_porch |-> 160, h_sync_width |-> 70,
   v_back_porch |-> 23, v_front_porch |-> 12, v_sync_width |-> 10,
   color_depth |-> Bpp16]

\* A second panel, 800x480 at 24 bpp, whose width and porches are not all
\* multiples of 8 and whose height - 1 fits one byte less than the default.
SmallConfig ==
  [width |-> 804, height |-> 480,
   h_back_porch |-> 46, h_front_porch |-> 210, h_sync_width |-> 20,
   v_back_porch |-> 23, v_front_porch |-> 22, v_sync_width |-> 10,
   color_depth |-> Bpp24]

Configs == {DefaultConfig, SmallConfig}

\* A configuration at 8 bpp whose fields are large: every horizontal count and
\* vertical value minus one exceeds a byte somewhere, and width * 2 exceeds u16.
BigConfig ==
  [width |-> 40004, height |-> 65535,
   h_back_porch |-> 8, h_front_porch |-> 2063, h_sync_width |-> 15,
   v_back_porch |-> 1, v_front_porch |-> 300, v_sync_width |-> 256,
   color_depth |-> Bpp8]

\* A configuration whose fields are too small for the `- 1` of the timing
\* arithmetic: the fields are public u16, nothing rejects them.
TinyConfig ==
  [width |-> 7, height |-> 0,
   h_back_porch |-> 0, h_front_porch |-> 8, h_sync_width |-> 8,
   v_back_porch |-> 0, v_front_porch |-> 1, v_sync_width |-> 1,
   color_depth |-> Bpp16]

AllConfigs == Configs \cup {BigConfig, TinyConfig}

\* Build profiles: overflow-checks on (debug) and off (release).
Profiles == BOOLEAN

\* Transport-specific error values (LT7683Interface::Error).
Errors == {"E1", "E2"}

\* Bytes the chip may return on a read: bit 0 (Srr reset in progress), bit 2
\* (SDRAM ready) and bit 3 (core busy) each alone set and each alone clear,
\* all bits clear and all bits set.
ReadBytes == {0, 1, 4, 8, 247, 251, 254, 255}

\* Bytes an SPI device may clock in ahead of the answer.
FirstBytes == {0, 255}

\* Arguments the firmware passes.
RegisterArgs ==
  { Srr, Ccr, Icr, Ppllc2, Dpcr, Pcsr, Vdhr2, Miw1, CvsImwth2, AwWth1, AwColor,
    Dcr0, Dlver2, Dcr1, Fgcr, Sdrar, SdrRef1, Sdrcr }
ByteArgs == {0, 1, 255}
PointArgs == {<<10, 20>>, <<300, 65535>>}
ColorArgs == {0, 4779, 65535}
WindowArgs == {<<0, 0, 1024, 600>>, <<16, 257, 300, 65535>>}
ScaleArgs == {0, 1, 2, 4, 5, 255}
TextArgs == {<< >>, << 72, 105 >>}
BackgroundArgs == {<< >>, << 255 >>}
RgbArgs == {16777215, 16737792}
SizeArgs == {<< 100, 50 >>, << 1024, 600 >>}

----------------------------------------------------------------------------
(* Instructions of a driver method.  `i` names the call, `a` and `b` are    *)
(* its arguments.                                                          *)

WriteRegister(register, data) == [a |-> register, b |-> data, i |-> "write_register"]
ReadRegister(register) == [a |-> register, b |-> 0, i |-> "read_register"]
ReadStatus == [a |-> 0, b |-> 0, i |-> "read_status"]
IsSdramReady == [a |-> 0, b |-> 0, i |-> "is_sdram_ready"]
WaitSdramReady == [a |-> 0, b |-> 0, i |-> "wait_sdram_ready"]
SrrPoll == [a |-> Srr, b |-> 0, i |-> "srr_poll"]
DelayMs(n) == [a |-> n, b |-> 0, i |-> "delay_ms"]
DelayUs(n) == [a |-> n, b |-> 0, i |-> "delay_us"]
BtePoll == [a |-> BteCtrl0, b |-> 0, i |-> "bte_poll"]
ResSetLow == [a |-> 0, b |-> 0, i |-> "set_low"]
ResSetHigh == [a |-> 0, b |-> 0, i |-> "set_high"]

(* u16 arithmetic whose exact result v does not fit u16: a step of its own, *)
(* at which a build with overflow checks panics.                            *)
Overflow == [a |-> 0, b |-> 0, i |-> "overflow"]
Checked(v) == IF v < 0 \/ v > 65535 THEN << Overflow >> ELSE << >>

\* write_register that sends the data byte before the register address.
write_register_data_first(register, data) ==
  << [call |-> "write_data", arg |-> data],
     [call |-> "write_command", arg |-> register] >>

(* The transport calls of the register I/O methods, in order. *)
write_register(register, data) ==
  << [call |-> "write_command", arg |-> register],
     [call |-> "write_data", arg |-> data] >>

read_register(register) ==
  << [call |-> "write_command", arg |-> register],
     [call |-> "read_data", arg |-> 0] >>

read_status ==
  << [call |-> "read_status", arg |-> 0] >>

(* The transport calls of one instruction; a polling loop makes them once   *)
(* per attempt.                                                            *)
Calls(instr) ==
  CASE instr.i = "write_register" -> write_register(instr.a, instr.b)
    [] instr.i \in {"read_register", "srr_poll", "bte_poll"} -> read_register(instr.a)
    [] instr.i \in {"read_status", "is_sdram_ready", "wait_sdram_ready"} -> read_status
    [] OTHER -> << >>

\* A readiness test that looks at bit 3, the core-busy flag.
is_sdram_ready_bit3(status) == Bit(status, 3) # 0

(* Status bit 2 = SDRAM ready; the test of is_sdram_ready. *)
is_sdram_ready(status) == Bit(status, 2) # 0

\* A completion test that looks at bit 1 of Srr.
srr_done_bit1(val) == Bit(val, 1) = 0

(* The test of the software_reset loop: bit 0 of Srr clears when done. *)
srr_done(val) == Bit(val, 0) = 0

\* A reset that releases the line and returns without the boot-settle wait.
hardware_reset_no_settle ==
  << ResSetLow, DelayMs(10), ResSetHigh >>

hardware_reset ==
  << ResSetLow, DelayMs(10), ResSetHigh, DelayMs(100) >>

software_reset ==
  << WriteRegister(Srr, 1), SrrPoll >>

configure_pll_enable_early ==
  << WriteRegister(Ppllc1, 6), WriteRegister(Ppllc2, 39),
     WriteRegister(Mpllc1, 4), WriteRegister(Mpllc2, 39),
     WriteRegister(Ccr, 0), DelayUs(10),
     WriteRegister(Cpllc1, 4), WriteRegister(Cpllc2, 39),
     WriteRegister(Ccr, 128), DelayMs(1) >>

configure_pll ==
  << WriteRegister(Ppllc1, 6), WriteRegister(Ppllc2, 39),
     WriteRegister(Mpllc1, 4), WriteRegister(Mpllc2, 39),
     WriteRegister(Cpllc1, 4), WriteRegister(Cpllc2, 39),
     WriteRegister(Ccr, 0), DelayUs(10),
     WriteRegister(Ccr, 128), DelayMs(1) >>

sdram_itv == 779

\* configure_sdram that starts the initialisation before the refresh
\* interval is programmed and returns without the settle delay.
configure_sdram_start_early ==
  << WriteRegister(Sdrar, 41), WriteRegister(Sdrmd, 3),
     WriteRegister(Sdrcr, 1),
     WriteRegister(SdrRef1, as_u8(sdram_itv)),
     WriteRegister(SdrRef2, as_u8(shr8(sdram_itv))) >>

configure_sdram ==
  << WriteRegister(Sdrar, 41), WriteRegister(Sdrmd, 3),
     WriteRegister(SdrRef1, as_u8(sdram_itv)),
     WriteRegister(SdrRef2, as_u8(shr8(sdram_itv))),
     WriteRegister(Sdrcr, 1), DelayMs(10) >>

\* A display timing whose horizontal width count lacks the `- 1`.
configure_display_timing_width_count(cfg) ==
  LET height_minus_1 == u16_sub(cfg.height, 1) IN
  << WriteRegister(Hdwr, as_u8(cfg.width \div 8)),
     WriteRegister(Hdwftr, as_u8(cfg.width % 8)),
     WriteRegister(Hndr, as_u8(u16_sub(cfg.h_back_porch \div 8, 1))),
     WriteRegister(Hndftr, as_u8(cfg.h_back_porch % 8)),
     WriteRegister(Hstr, as_u8(u16_sub(cfg.h_front_porch \div 8, 1))),
     WriteRegister(Hpwr, as_u8(u16_sub(cfg.h_sync_width \div 8, 1))),
     WriteRegister(Vdhr1, as_u8(height_minus_1 % 256)),
     WriteRegister(Vdhr2, as_u8(shr8(height_minus_1) % 256)),
     WriteRegister(Vndr1, as_u8(u16_sub(cfg.v_back_porch, 1))),
     WriteRegister(Vndr2, 0),
     WriteRegister(Vstr, as_u8(u16_sub(cfg.v_front_porch, 1))),
     WriteRegister(Vpwr, as_u8(u16_sub(cfg.v_sync_width, 1))) >>

configure_display_timing(cfg) ==
  LET height_minus_1 == u16_sub(cfg.height, 1) IN
  Checked((cfg.width \div 8) - 1)
  \o << WriteRegister(Hdwr, as_u8(u16_sub(cfg.width \div 8, 1))),
        WriteRegister(Hdwftr, as_u8(cfg.width % 8)) >>
  \o Checked((cfg.h_back_porch \div 8) - 1)
  \o << WriteRegister(Hndr, as_u8(u16_sub(cfg.h_back_porch \div 8, 1))),
        WriteRegister(Hndftr, as_u8(cfg.h_back_porch % 8)) >>
  \o Checked((cfg.h_front_porch \div 8) - 1)
  \o << WriteRegister(Hstr, as_u8(u16_sub(cfg.h_front_porch \div 8, 1))) >>
  \o Checked((cfg.h_sync_width \div 8) - 1)
  \o << WriteRegister(Hpwr, as_u8(u16_sub(cfg.h_sync_width \div 8, 1))) >>
  \o Checked(cfg.height - 1)
  \o << WriteRegister(Vdhr1, as_u8(height_minus_1 % 256)),
        WriteRegister(Vdhr2, as_u8(shr8(height_minus_1) % 256)) >>
  \o Checked(cfg.v_back_porch - 1)
  \o << WriteRegister(Vndr1, as_u8(u16_sub(cfg.v_back_porch, 1))),
        WriteRegister(Vndr2, 0) >>
  \o Checked(cfg.v_front_porch - 1)
  \o << WriteRegister(Vstr, as_u8(u16_sub(cfg.v_front_porch, 1))) >>
  \o Checked(cfg.v_sync_width - 1)
  \o << WriteRegister(Vpwr, as_u8(u16_sub(cfg.v_sync_width, 1))) >>

set_active_window(x, y, width, height) ==
  << WriteRegister(AwulX1, as_u8(x)), WriteRegister(AwulX2, as_u8(shr8(x))),
     WriteRegister(AwulY1, as_u8(y)), WriteRegister(AwulY2, as_u8(shr8(y))),
     WriteRegister(AwWth1, as_u8(width)), WriteRegister(AwWth2, as_u8(shr8(width))),
     WriteRegister(AwHt1, as_u8(height)), WriteRegister(AwHt2, as_u8(shr8(height))) >>

configure_main_window(timing) ==
  LET width_bytes == u16_mul(timing.width, 2) IN
  << WriteRegister(Mpwctr, 4),
     WriteRegister(Misa1, 0), WriteRegister(Misa2, 0),
     WriteRegister(Misa3, 0), WriteRegister(Misa4, 0) >>
  \o Checked(timing.width * 2)
  \o << WriteRegister(Miw1, as_u8(width_bytes % 256)),
        WriteRegister(Miw2, as_u8(shr8(width_bytes) % 256)),
        WriteRegister(Mwulx1, 0), WriteRegister(Mwulx2, 0),
        WriteRegister(Mwuly1, 0), WriteRegister(Mwuly2, 0),
        WriteRegister(Cvssa1, 0), WriteRegister(Cvssa2, 0),
        WriteRegister(Cvssa3, 0), WriteRegister(Cvssa4, 0),
        WriteRegister(CvsImwth1, as_u8(width_bytes % 256)),
        WriteRegister(CvsImwth2, as_u8(shr8(width_bytes) % 256)) >>
  \o set_active_window(0, 0, timing.width, timing.height)
  \o << WriteRegister(AwColor, 1) >>

\* A colour-bar bring-up that also initialises the SDRAM and waits for it.
init_color_bar_test_with_sdram(cfg) ==
  hardware_reset \o software_reset \o configure_pll \o configure_sdram
  \o << WaitSdramReady >>
  \o << WriteRegister(Ccr, 128) >>
  \o configure_display_timing(cfg)
  \o << WriteRegister(Pcsr, 192) >>
  \o << WriteRegister(Dpcr, 224) >>

init_color_bar_test(cfg) ==
  hardware_reset \o software_reset \o configure_pll
  \o << WriteRegister(Ccr, 128) >>
  \o configure_display_timing(cfg)
  \o << WriteRegister(Pcsr, 192) >>
  \o << WriteRegister(Dpcr, 224) >>

\* An init that turns the display on before the main window is configured.
init_display_on_early(cfg, timing) ==
  hardware_reset \o software_reset \o configure_pll \o configure_sdram
  \o << WaitSdramReady >>
  \o << WriteRegister(Ccr, 128) >>
  \o << WriteRegister(Macr, 64) >>
  \o << WriteRegister(Icr, 0) >>
  \o configure_display_timing(cfg)
  \o << WriteRegister(Pcsr, 192) >>
  \o << WriteRegister(Dpcr, 192) >>
  \o configure_main_window(timing)

init(cfg, timing) ==
  hardware_reset \o software_reset \o configure_pll \o configure_sdram
  \o << WaitSdramReady >>
  \o << WriteRegister(Ccr, 128) >>
  \o << WriteRegister(Macr, 64) >>
  \o << WriteRegister(Icr, 0) >>
  \o configure_display_timing(cfg)
  \o << WriteRegister(Pcsr, 192) >>
  \o configure_main_window(timing)
  \o << WriteRegister(Dpcr, 192) >>

set_foreground_color(cfg, color) ==
  IF cfg.color_depth = Bpp16
  THEN LET r == ((color \div 2048) % 32) * 8
           g == ((color \div 32) % 64) * 4
           b == (color % 32) * 8
       IN << WriteRegister(Fgcr, as_u8(r)), WriteRegister(Fgcg, as_u8(g)),
             WriteRegister(Fgcb, as_u8(b)) >>
  ELSE << WriteRegister(Fgcr, as_u8(shr8(color))), WriteRegister(Fgcg, as_u8(color)),
          WriteRegister(Fgcb, 0) >>

draw_coordinates(x1, y1, x2, y2) ==
  << WriteRegister(Dlhsr1, as_u8(x1)), WriteRegister(Dlhsr2, as_u8(shr8(x1))),
     WriteRegister(Dlvsr1, as_u8(y1)), WriteRegister(Dlvsr2, as_u8(shr8(y1))),
     WriteRegister(Dlher1, as_u8(x2)), WriteRegister(Dlher2, as_u8(shr8(x2))),
     WriteRegister(Dlver1, as_u8(y2)), WriteRegister(Dlver2, as_u8(shr8(y2))) >>

draw_filled_rectangle(cfg, x1, y1, x2, y2, color) ==
  set_foreground_color(cfg, color) \o draw_coordinates(x1, y1, x2, y2)
  \o << WriteRegister(Dcr0, 176) >>

\* A draw_line that starts the draw before the end point is written.
draw_line_start_early(cfg, x1, y1, x2, y2, color) ==
  set_foreground_color(cfg, color)
  \o << WriteRegister(Dlhsr1, as_u8(x1)), WriteRegister(Dlhsr2, as_u8(shr8(x1))),
        WriteRegister(Dlvsr1, as_u8(y1)), WriteRegister(Dlvsr2, as_u8(shr8(y1))),
        WriteRegister(Dcr0, 128),
        WriteRegister(Dlher1, as_u8(x2)), WriteRegister(Dlher2, as_u8(shr8(x2))),
        WriteRegister(Dlver1, as_u8(y2)), WriteRegister(Dlver2, as_u8(shr8(y2))) >>

draw_line(cfg, x1, y1, x2, y2, color) ==
  set_foreground_color(cfg, color) \o draw_coordinates(x1, y1, x2, y2)
  \o << WriteRegister(Dcr0, 128) >>

\* A clear_screen that passes the panel size itself as the far corner.
clear_screen_to_size(cfg, color) ==
  draw_filled_rectangle(cfg, 0, 0, cfg.width, cfg.height, color)

clear_screen(cfg, color) ==
  Checked(cfg.width - 1) \o Checked(cfg.height - 1)
  \o draw_filled_rectangle(cfg, 0, 0, u16_sub(cfg.width, 1), u16_sub(cfg.height, 1), color)

----------------------------------------------------------------------------
(* Operations the example firmware calls but whose code is not part of the  *)
(* driver source: text rendering and the block-transfer engine, as the      *)
(* design description gives them.                                           *)

(* A colour is 24 bits, 8 each of red, green and blue; each channel keeps   *)
(* the bits the colour depth has: 3:3:2, 5:6:5 or 8:8:8.                    *)
color_channels(cfg, color) ==
  LET r == (color \div 65536) % 256
      g == (color \div 256) % 256
      b == color % 256
  IN CASE cfg.color_depth = Bpp8 -> << r - (r % 32), g - (g % 32), b - (b % 64) >>
       [] cfg.color_depth = Bpp16 -> << r - (r % 8), g - (g % 4), b - (b % 8) >>
       [] OTHER -> << r, g, b >>

set_foreground_color_rgb(cfg, color) ==
  LET c == color_channels(cfg, color)
  IN << WriteRegister(Fgcr, c[1]), WriteRegister(Fgcg, c[2]), WriteRegister(Fgcb, c[3]) >>

set_background_color(cfg, color) ==
  LET c == color_channels(cfg, color)
  IN << WriteRegister(Bgcr, c[1]), WriteRegister(Bgcg, c[2]), WriteRegister(Bgcb, c[3]) >>

\* A scale code whose subtraction wraps around in 8 bits.
scale_code_wrapping(scale) ==
  LET d == (scale - 1 + 256) % 256 IN IF d > 3 THEN 3 ELSE d

(* clamp(scale - 1, 0..=3): the subtraction stops at zero. *)
scale_code(scale) ==
  LET d == IF scale >= 1 THEN scale - 1 ELSE 0 IN IF d > 3 THEN 3 ELSE d

(* bg is << >> for no background colour and << colour >> for one. *)
write_text_scaled(cfg, text, x, y, bg, fg, scale_x, scale_y) ==
  LET scale_bits == scale_code(scale_y) * 4 + scale_code(scale_x) IN
  << WriteRegister(Ccr0, 0) >>
  \o (IF bg # << >>
      THEN << WriteRegister(Ccr1, scale_bits) >> \o set_background_color(cfg, bg[1])
      ELSE << WriteRegister(Ccr1, scale_bits + 64) >>)
  \o set_foreground_color_rgb(cfg, fg)
  \o << WriteRegister(Icr, 4),
        WriteRegister(FCurx1, as_u8(x)), WriteRegister(FCurx2, as_u8(shr8(x))),
        WriteRegister(FCury1, as_u8(y)), WriteRegister(FCury2, as_u8(shr8(y))) >>
  \o [k \in 1 .. Len(text) |-> WriteRegister(Mrwdp, text[k])]

write_text(cfg, text, x, y, bg, fg) ==
  write_text_scaled(cfg, text, x, y, bg, fg, 1, 1)

(* depth | (depth << 5) | (depth << 2): the depth code in three fields. *)
bte_color_depths(cfg) == cfg.color_depth + cfg.color_depth * 32 + cfg.color_depth * 4

\* A completion test that looks at bit 3 of the control register.
bte_done_bit3(val) == Bit(val, 3) = 0

(* The test of the wait_bte_complete loop: bit 4 reads 1 while busy. *)
bte_done(val) == Bit(val, 4) = 0

wait_bte_complete ==
  << BtePoll, WriteRegister(BteCtrl0, 0) >>

bte_solid_fill(cfg, x, y, width, height, color) ==
  set_foreground_color_rgb(cfg, color)
  \o << WriteRegister(DtStr0, 0), WriteRegister(DtStr1, 0),
        WriteRegister(DtStr2, 0), WriteRegister(DtStr3, 0),
        WriteRegister(DtX0, as_u8(x)), WriteRegister(DtX1, as_u8(shr8(x))),
        WriteRegister(DtY0, as_u8(y)), WriteRegister(DtY1, as_u8(shr8(y))),
        WriteRegister(BteColr, bte_color_depths(cfg)),
        WriteRegister(DtWth0, as_u8(cfg.width)), WriteRegister(DtWth1, as_u8(shr8(cfg.width))),
        WriteRegister(BteWth0, as_u8(width)), WriteRegister(BteWth1, as_u8(shr8(width))),
        WriteRegister(BteHig0, as_u8(height)), WriteRegister(BteHig1, as_u8(shr8(height))),
        WriteRegister(BteCtrl1, 12),
        WriteRegister(BteCtrl0, 16) >>
  \o wait_bte_complete

bte_memory_copy(cfg, src_x, src_y, dst_x, dst_y, width, height) ==
  << WriteRegister(S0Str0, 0), WriteRegister(S0Str1, 0),
     WriteRegister(S0Str2, 0), WriteRegister(S0Str3, 0),
     WriteRegister(S0Wth0, as_u8(cfg.width)), WriteRegister(S0Wth1, as_u8(shr8(cfg.width))),
     WriteRegister(S0X0, as_u8(src_x)), WriteRegister(S0X1, as_u8(shr8(src_x))),
     WriteRegister(S0Y0, as_u8(src_y)), WriteRegister(S0Y1, as_u8(shr8(src_y))),
     WriteRegister(DtStr0, 0), WriteRegister(DtStr1, 0),
     WriteRegister(DtStr2, 0), WriteRegister(DtStr3, 0),
     WriteRegister(DtWth0, as_u8(cfg.width)), WriteRegister(DtWth1, as_u8(shr8(cfg.width))),
     WriteRegister(DtX0, as_u8(dst_x)), WriteRegister(DtX1, as_u8(shr8(dst_x))),
     WriteRegister(DtY0, as_u8(dst_y)), WriteRegister(DtY1, as_u8(shr8(dst_y))),
     WriteRegister(BteWth0, as_u8(width)), WriteRegister(BteWth1, as_u8(shr8(width))),
     WriteRegister(BteHig0, as_u8(height)), WriteRegister(BteHig1, as_u8(shr8(height))),
     WriteRegister(BteColr, bte_color_depths(cfg)),
     WriteRegister(BteCtrl1, 194),
     WriteRegister(BteCtrl0, 16) >>
  \o wait_bte_complete

----------------------------------------------------------------------------
(* Transports.  A transport call yields the bus activity it performs        *)
(* (`wire`) and, for a read, the byte it returns.                           *)

SpiWrite(bytes) == [k |-> "spi_write", tx |-> bytes, rx |-> << >>]
SpiTransfer(bytes, received) == [k |-> "spi_transfer", tx |-> bytes, rx |-> received]
Pin(name, level) == [k |-> name, tx |-> << level >>, rx |-> << >>]
BusWrite(byte) == [k |-> "bus_write", tx |-> << byte >>, rx |-> << >>]
BusRead(byte) == [k |-> "bus_read", tx |-> << >>, rx |-> << byte >>]
BusSetInput == [k |-> "set_input", tx |-> << >>, rx |-> << >>]
BusSetOutput == [k |-> "set_output", tx |-> << >>, rx |-> << >>]

(* impl LT7683Interface for SpiInterface.  `received` are the two bytes     *)
(* clocked in during a full-duplex transfer; `ok` is the SPI device's       *)
(* verdict.                                                                *)
\* write_command that frames the address ahead of the access-mode byte.
SpiInterface_write_command_swapped(register) ==
  [wire |-> << SpiWrite(<< register, 0 >>) >>, value |-> 0]

SpiInterface_write_command(register) ==
  [wire |-> << SpiWrite(<< 0, register >>) >>, value |-> 0]

SpiInterface_write_data(data) ==
  [wire |-> << SpiWrite(<< 128, data >>) >>, value |-> 0]

\* read_data that returns the byte clocked in with the request byte.
SpiInterface_read_data_first_byte(received) ==
  [wire |-> << SpiTransfer(<< 192, 0 >>, received) >>, value |-> received[1]]

SpiInterface_read_data(received) ==
  [wire |-> << SpiTransfer(<< 192, 0 >>, received) >>, value |-> received[2]]

SpiInterface_read_status(received) ==
  [wire |-> << SpiTransfer(<< 64, 0 >>, received) >>, value |-> received[2]]

(* impl LT7683Interface for ParallelInterface.  Only ParallelBus::read is   *)
(* fallible; a failed read returns before RD is raised and before the bus   *)
(* is switched back to output.                                             *)
\* write_command that strobes WR before the address is on the bus.
ParallelInterface_write_command_strobe_first(register) ==
  [wire |-> << Pin("rs", 0), Pin("rd", 1), Pin("wr", 0), BusWrite(register),
               Pin("wr", 1) >>, value |-> 0]

ParallelInterface_write_command(register) ==
  [wire |-> << Pin("rs", 0), Pin("rd", 1), BusWrite(register),
               Pin("wr", 0), Pin("wr", 1) >>, value |-> 0]

ParallelInterface_write_data(data) ==
  [wire |-> << Pin("rs", 1), Pin("rd", 1), BusWrite(data),
               Pin("wr", 0), Pin("wr", 1) >>, value |-> 0]

\* read_data that releases RD before it samples the bus.
ParallelInterface_read_data_late_sample(sampled, ok) ==
  [wire |-> << Pin("rs", 1), Pin("wr", 1), BusSetInput, Pin("rd", 0), Pin("rd", 1),
               BusRead(sampled) >>
            \o (IF ok THEN << BusSetOutput >> ELSE << >>),
   value |-> sampled]

ParallelInterface_read_data(sampled, ok) ==
  [wire |-> << Pin("rs", 1), Pin("wr", 1), BusSetInput, Pin("rd", 0), BusRead(sampled) >>
            \o (IF ok THEN << Pin("rd", 1), BusSetOutput >> ELSE << >>),
   value |-> sampled]

ParallelInterface_read_status(sampled, ok) ==
  [wire |-> << Pin("rs", 0), Pin("wr", 1), BusSetInput, Pin("rd", 0), BusRead(sampled) >>
            \o (IF ok THEN << Pin("rd", 1), BusSetOutput >> ELSE << >>),
   value |-> sampled]

(* Which calls of a transport can return Err. *)
CanFail(transport, call) ==
  \/ transport = "spi"
  \/ transport = "parallel" /\ call \in {"read_data", "read_status"}

(* The call `call(arg)` on transport `transport`. *)
Transport(transport, call, arg, received, ok) ==
  IF transport = "spi"
  THEN CASE call = "write_command" -> SpiInterface_write_command(arg)
         [] call = "write_data" -> SpiInterface_write_data(arg)
         [] call = "read_data" -> SpiInterface_read_data(received)
         [] call = "read_status" -> SpiInterface_read_status(received)
  ELSE CASE call = "write_command" -> ParallelInterface_write_command(arg)
         [] call = "write_data" -> ParallelInterface_write_data(arg)
         [] call = "read_data" -> ParallelInterface_read_data(received[2], ok)
         [] call = "read_status" -> ParallelInterface_read_status(received[2], ok)

(* Levels of the WR and RD strobes and the bus direction after the pin      *)
(* operations of `w` have been applied in order.  RS is driven first thing  *)
(* by every call, so its level between calls is not kept; no call drives    *)
(* CS, so its level stays.                                                  *)
RECURSIVE ApplyWire(_, _)
ApplyWire(p, w) ==
  IF w = << >> THEN p
  ELSE LET e == Head(w)
           q == CASE e.k \in {"wr", "rd"} -> [p EXCEPT ![e.k] = e.tx[1]]
                  [] e.k = "set_input" -> [p EXCEPT !["out"] = 0]
                  [] e.k = "set_output" -> [p EXCEPT !["out"] = 1]
                  [] OTHER -> p
       IN ApplyWire(q, Tail(w))

----------------------------------------------------------------------------
VARIABLES
  iface,      \* "spi" or "parallel": the transport the driver owns
  config,     \* LT7683::config
  overflow_checks, \* build profile: TRUE when integer overflow panics (debug),
              \* FALSE when it wraps (release)
  firmware,   \* the example firmware's main: the statement it is at, the results
              \* of the statements it has finished, and whether it still runs
  res,        \* level of the reset line (1 = high, released)
  pins,       \* parallel transport: WR and RD levels, bus direction (out = 1) and
              \* the level of CS, which the caller hands over with the pin
  core_busy,  \* chip: draw engine busy (status bit 3)
  op,         \* the driver method the firmware called last
  args,       \* its arguments
  prog,       \* its instructions
  pc,         \* index of the instruction being executed
  phase,      \* position inside that instruction
  iter,       \* completed iterations of the current polling loop
  log,        \* transport calls, delays and pin operations of the method, in order
  wire,       \* bus activity of the most recent transport call
  ret,        \* byte returned by the most recent transport call (0 for a write)
  result,     \* "idle", "running", "Ok", "Err" or "Panic"
  err,        \* the error returned with "Err"
  fault,      \* the error the failing transport call reported
  retval      \* value returned with "Ok" (a bool as 0/1)

vars == << iface, config, overflow_checks, firmware, res, pins, core_busy, op, args, prog, pc, phase, iter,
           log, wire, ret, result, err, fault, retval >>

Ev(name, arg) == [arg |-> arg, op |-> name]

Running == result = "running" /\ pc <= Len(prog)
Instr == prog[pc]

(* LT7683::new with one of `configs`, in a build of one of `profiles`. *)
Constructed(configs, profiles) ==
  /\ iface \in {"spi", "parallel"}
  /\ config \in configs
  /\ overflow_checks \in profiles
  /\ firmware = [state |-> "running", pc |-> 1, results |-> << >>]
  /\ res = 1
  /\ \E level \in (IF iface = "parallel" THEN {0, 1} ELSE {1}) :
       pins = [out |-> 1, wr |-> 1, rd |-> 1, cs |-> level]
  /\ core_busy = FALSE
  /\ op = "none"
  /\ args = << >>
  /\ prog = << >>
  /\ pc = 1
  /\ phase = 0
  /\ iter = 0
  /\ log = << >>
  /\ wire = << >>
  /\ ret = 0
  /\ result = "idle"
  /\ err = "none"
  /\ fault = "none"
  /\ retval = 0

(* The firmware's driver: the arithmetic of Configs never overflows, so the *)
(* build profile makes no difference to it.                                 *)
Init == Constructed(Configs, {FALSE})

----------------------------------------------------------------------------
(* Steps of the running method. *)

\* An error path that replaces the transport's error by a fixed one.
PropagateFixed(e) == "E1"

(* `?`: the error of a failed call is the method's error. *)
Propagate(e) == e

(* The instruction at pc is finished. *)
Advance ==
  /\ pc' = pc + 1
  /\ phase' = 0
  /\ iter' = 0

(* A transport call succeeded: it is logged with its bus activity. *)
CallOk(call, arg, received) ==
  LET t == Transport(iface, call, arg, received, TRUE) IN
  /\ log' = Append(log, Ev(call, arg))
  /\ wire' = t.wire
  /\ pins' = ApplyWire(pins, t.wire)
  /\ ret' = t.value
  /\ UNCHANGED << result, err, fault >>

\* A failed transport call whose error is noted while the method carries on.
CallErr_carry_on(call, arg, e) ==
  LET t == Transport(iface, call, arg, << 0, 0 >>, FALSE) IN
  /\ CanFail(iface, call)
  /\ log' = Append(log, Ev(call, arg))
  /\ wire' = t.wire
  /\ pins' = ApplyWire(pins, t.wire)
  /\ ret' = 0
  /\ fault' = e
  /\ err' = Propagate(e)
  /\ UNCHANGED << result, retval, core_busy >>
  /\ Advance

(* A transport call failed with e: the method returns Err(e) at once.       *)
(* Nothing is received by a failed read.                                    *)
CallErr(call, arg, e) ==
  LET t == Transport(iface, call, arg, << 0, 0 >>, FALSE) IN
  /\ CanFail(iface, call)
  /\ log' = Append(log, Ev(call, arg))
  /\ wire' = t.wire
  /\ pins' = ApplyWire(pins, t.wire)
  /\ ret' = 0
  /\ fault' = e
  /\ err' = Propagate(e)
  /\ result' = "Err"
  /\ UNCHANGED << pc, phase, iter, retval, core_busy >>

(* Chip: a write of a draw-control register with bit 7 set starts the draw  *)
(* engine.                                                                 *)
StartsDraw(register, data) == register \in {Dcr0, Dcr1} /\ Bit(data, 7) = 1

(* Inside init the chip ends a poll only on an early or on the last attempt. *)
ExitAttempts == (1 .. MaxEarly) \cup {PollLimit}
PollExitAllowed(done) == (op = "init" /\ done) => (iter + 1) \in ExitAttempts

(* What the transport receives on a read that returns v. *)
Received(v) ==
  IF iface = "spi" THEN {<< first, v >> : first \in FirstBytes} ELSE {<< 0, v >>}

(* The transport call that is due: call number phase + 1 of the instruction. *)
CallDue == Running /\ phase < Len(Calls(Instr))
Due == Calls(Instr)[phase + 1]

(* Control flow after a successful transport call.  After the last call of  *)
(* an instruction the value read is returned, or tested by the loop.        *)
Continue ==
  IF phase + 1 < Len(Calls(Instr))
  THEN phase' = phase + 1 /\ UNCHANGED << pc, iter, retval >>
  ELSE CASE Instr.i = "write_register" -> Advance /\ UNCHANGED retval
         [] Instr.i \in {"read_register", "read_status"} -> Advance /\ retval' = ret'
         [] Instr.i = "is_sdram_ready" ->
              Advance /\ retval' = (IF is_sdram_ready(ret') THEN 1 ELSE 0)
         [] Instr.i = "srr_poll" ->
              /\ PollExitAllowed(srr_done(ret'))
              /\ UNCHANGED retval
              /\ IF srr_done(ret')
                 THEN Advance
                 ELSE phase' = phase + 1 /\ UNCHANGED << pc, iter >>
         [] Instr.i = "wait_sdram_ready" ->
              /\ PollExitAllowed(is_sdram_ready(ret'))
              /\ IF is_sdram_ready(ret')
                 THEN Advance /\ retval' = 1
                 ELSE phase' = phase + 1 /\ UNCHANGED << pc, iter, retval >>
         [] Instr.i = "bte_poll" ->
              /\ UNCHANGED retval
              /\ IF bte_done(ret')
                 THEN Advance
                 ELSE /\ iter < MaxBtePolls
                      /\ iter' = iter + 1
                      /\ phase' = 0
                      /\ UNCHANGED pc

(* self.spi_interface.write_command(register)? *)
WriteCommand ==
  /\ CallDue
  /\ Due.call = "write_command"
  /\ UNCHANGED << iface, config, overflow_checks, firmware, res, op, args, prog >>
  /\ \/ /\ CallOk("write_command", Due.arg, << >>)
        /\ Continue
        /\ UNCHANGED core_busy
     \/ \E e \in Errors : CallErr("write_command", Due.arg, e)

(* self.spi_interface.write_data(data)? *)
WriteData ==
  /\ CallDue
  /\ Due.call = "write_data"
  /\ UNCHANGED << iface, config, overflow_checks, firmware, res, op, args, prog >>
  /\ \/ /\ CallOk("write_data", Due.arg, << >>)
        /\ Continue
        /\ core_busy' = (core_busy \/ StartsDraw(Instr.a, Due.arg))
     \/ \E e \in Errors : CallErr("write_data", Due.arg, e)

(* self.spi_interface.read_data() *)
ReadData ==
  /\ CallDue
  /\ Due.call = "read_data"
  /\ UNCHANGED << iface, config, overflow_checks, firmware, res, op, args, prog >>
  /\ \/ \E v \in ReadBytes : \E received \in Received(v) :
          /\ CallOk("read_data", Due.arg, received)
          /\ Continue
          /\ UNCHANGED core_busy
     \/ \E e \in Errors : CallErr("read_data", Due.arg, e)

(* self.spi_interface.read_status().  The chip reports core busy in bit 3.  *)
ReadStatusCall ==
  /\ CallDue
  /\ Due.call = "read_status"
  /\ UNCHANGED << iface, config, overflow_checks, firmware, res, op, args, prog >>
  /\ \/ \E v \in ReadBytes : \E received \in Received(v) :
          /\ (Bit(v, 3) = 1) = core_busy
          /\ CallOk("read_status", Due.arg, received)
          /\ Continue
          /\ UNCHANGED core_busy
     \/ \E e \in Errors : CallErr("read_status", Due.arg, e)

(* delay.delay_ms / delay.delay_us as a statement of a method. *)
Delay ==
  /\ Running
  /\ Instr.i \in {"delay_ms", "delay_us"}
  /\ log' = Append(log, Ev(Instr.i, Instr.a))
  /\ wire' = << >>
  /\ ret' = 0
  /\ Advance
  /\ UNCHANGED << iface, config, overflow_checks, firmware, res, pins, core_busy, op, args, prog,
                  result, err, fault, retval >>

\* A polling loop that turns the exhaustion of its attempts into an error.
PollDelay_timeout_error ==
  /\ Running
  /\ Instr.i \in {"srr_poll", "wait_sdram_ready"}
  /\ phase = Len(Calls(Instr))
  /\ log' = Append(log, Ev("delay_ms", IF Instr.i = "srr_poll" THEN 1 ELSE 10))
  /\ wire' = << >>
  /\ ret' = 0
  /\ IF iter + 1 < PollLimit
     THEN /\ iter' = iter + 1
          /\ phase' = 0
          /\ UNCHANGED << pc, retval, result, err >>
     ELSE /\ result' = "Err"
          /\ err' = "timeout"
          /\ UNCHANGED << pc, phase, iter, retval >>
  /\ UNCHANGED << iface, config, overflow_checks, firmware, res, pins, core_busy, op, args, prog, fault >>

(* The delay that ends an unsuccessful attempt of a polling loop; after the *)
(* last attempt the loop is left: software_reset returns Ok(()),            *)
(* wait_sdram_ready returns Ok(false).                                      *)
PollDelay ==
  /\ Running
  /\ Instr.i \in {"srr_poll", "wait_sdram_ready"}
  /\ phase = Len(Calls(Instr))
  /\ log' = Append(log, Ev("delay_ms", IF Instr.i = "srr_poll" THEN 1 ELSE 10))
  /\ wire' = << >>
  /\ ret' = 0
  /\ IF iter + 1 < PollLimit
     THEN /\ iter' = iter + 1
          /\ phase' = 0
          /\ UNCHANGED << pc, retval >>
     ELSE /\ Advance
          /\ retval' = 0
  /\ UNCHANGED << iface, config, overflow_checks, firmware, res, pins, core_busy, op, args, prog,
                  result, err, fault >>

(* An overflowing u16 operation: the build with overflow checks panics and  *)
(* the program halts; the other build goes on with the wrapped value.       *)
ArithmeticOverflow ==
  /\ Running
  /\ Instr.i = "overflow"
  /\ IF overflow_checks
     THEN result' = "Panic" /\ UNCHANGED << pc, phase, iter >>
     ELSE Advance /\ UNCHANGED result
  /\ UNCHANGED << iface, config, overflow_checks, firmware, res, pins, core_busy, op, args, prog,
                  log, wire, ret, err, fault, retval >>

\* A reset step that returns the pin's error instead of discarding it.
ResetPin_checked ==
  /\ Running
  /\ Instr.i \in {"set_low", "set_high"}
  /\ log' = Append(log, Ev(Instr.i, 0))
  /\ wire' = << >>
  /\ ret' = 0
  /\ \E pin_ok \in BOOLEAN :
       IF pin_ok
       THEN /\ res' = (IF Instr.i = "set_low" THEN 0 ELSE 1)
            /\ Advance
            /\ UNCHANGED << result, err, fault >>
       ELSE /\ res' = res
            /\ result' = "Err"
            /\ fault' = "E1"
            /\ err' = Propagate("E1")
            /\ UNCHANGED << pc, phase, iter >>
  /\ UNCHANGED << iface, config, overflow_checks, firmware, pins, core_busy, op, args, prog,
                  retval >>

(* let _ = self.res.set_low() / set_high(): the pin's error is discarded;   *)
(* a pin that fails leaves the line where it was.                           *)
ResetPin ==
  /\ Running
  /\ Instr.i \in {"set_low", "set_high"}
  /\ log' = Append(log, Ev(Instr.i, 0))
  /\ wire' = << >>
  /\ ret' = 0
  /\ \E pin_ok \in BOOLEAN :
       res' = IF pin_ok THEN (IF Instr.i = "set_low" THEN 0 ELSE 1) ELSE res
  /\ Advance
  /\ UNCHANGED << iface, config, overflow_checks, firmware, pins, core_busy, op, args, prog,
                  result, err, fault, retval >>

(* Ok(..) at the end of the method. *)
Return ==
  /\ result = "running"
  /\ pc > Len(prog)
  /\ result' = "Ok"
  /\ UNCHANGED << iface, config, overflow_checks, firmware, res, pins, core_busy, op, args, prog, pc, phase, iter,
                  log, wire, ret, err, fault, retval >>

(* The caller has taken the method's result; the driver is ready for the    *)
(* next call.                                                               *)
Taken ==
  /\ result \in {"Ok", "Err"}
  /\ result' = "idle"
  /\ op' = "none"
  /\ args' = << >>
  /\ prog' = << >>
  /\ pc' = 1
  /\ phase' = 0
  /\ iter' = 0
  /\ log' = << >>
  /\ wire' = << >>
  /\ ret' = 0
  /\ err' = "none"
  /\ fault' = "none"
  /\ retval' = 0
  /\ UNCHANGED << iface, config, overflow_checks, res, pins, core_busy >>

Drop == Taken /\ UNCHANGED firmware

(* Chip: the draw engine finishes the draw it was given. *)
ChipDrawDone ==
  /\ core_busy
  /\ core_busy' = FALSE
  /\ UNCHANGED << iface, config, overflow_checks, firmware, res, pins, op, args, prog, pc, phase, iter,
                  log, wire, ret, result, err, fault, retval >>

----------------------------------------------------------------------------
(* The firmware calls a driver method. *)

Call(name, arguments, program) ==
  /\ result = "idle"
  /\ op' = name
  /\ args' = arguments
  /\ prog' = program
  /\ pc' = 1
  /\ phase' = 0
  /\ iter' = 0
  /\ log' = << >>
  /\ wire' = << >>
  /\ ret' = 0
  /\ result' = "running"
  /\ err' = "none"
  /\ fault' = "none"
  /\ retval' = 0
  /\ UNCHANGED << iface, config, overflow_checks, firmware, res, pins, core_busy >>

CallWriteRegister ==
  \E register \in RegisterArgs, data \in ByteArgs :
    Call("write_register", << register, data >>, << WriteRegister(register, data) >>)

CallReadRegister ==
  \E register \in RegisterArgs :
    Call("read_register", << register >>, << ReadRegister(register) >>)

CallReadStatus == Call("read_status", << >>, << ReadStatus >>)

CallIsSdramReady == Call("is_sdram_ready", << >>, << IsSdramReady >>)

CallWaitSdramReady == Call("wait_sdram_ready", << >>, << WaitSdramReady >>)

CallHardwareReset == Call("hardware_reset", << >>, hardware_reset)

CallSoftwareReset == Call("software_reset", << >>, software_reset)

CallInitColorBarTest == Call("init_color_bar_test", << >>, init_color_bar_test(config))

CallInit ==
  \E timing \in Configs : Call("init", << timing >>, init(config, timing))

CallSetActiveWindow ==
  \E w \in WindowArgs :
    Call("set_active_window", w, set_active_window(w[1], w[2], w[3], w[4]))

CallSetForegroundColor ==
  \E color \in ColorArgs :
    Call("set_foreground_color", << color >>, set_foreground_color(config, color))

CallDrawFilledRectangle ==
  \E p1 \in PointArgs, p2 \in PointArgs, color \in ColorArgs :
    Call("draw_filled_rectangle", << p1[1], p1[2], p2[1], p2[2], color >>,
         draw_filled_rectangle(config, p1[1], p1[2], p2[1], p2[2], color))

CallDrawLine ==
  \E p1 \in PointArgs, p2 \in PointArgs, color \in ColorArgs :
    Call("draw_line", << p1[1], p1[2], p2[1], p2[2], color >>,
         draw_line(config, p1[1], p1[2], p2[1], p2[2], color))

CallClearScreen ==
  \E color \in ColorArgs :
    Call("clear_screen", << color >>, clear_screen(config, color))

Next ==
  \/ CallWriteRegister
  \/ CallReadRegister
  \/ CallReadStatus
  \/ CallIsSdramReady
  \/ CallWaitSdramReady
  \/ CallHardwareReset
  \/ CallSoftwareReset
  \/ CallInitColorBarTest
  \/ CallInit
  \/ CallSetActiveWindow
  \/ CallSetForegroundColor
  \/ CallDrawFilledRectangle
  \/ CallDrawLine
  \/ CallClearScreen
  \/ WriteCommand
  \/ WriteData
  \/ ReadData
  \/ ReadStatusCall
  \/ Delay
  \/ PollDelay
  \/ ResetPin
  \/ Return
  \/ Drop
  \/ ChipDrawDone

Spec == Init /\ [][Next]_vars

----------------------------------------------------------------------------
(* The register-programming methods one at a time, the private ones called  *)
(* as init calls them, over every configuration and both build profiles.    *)

InitMethods == Constructed(AllConfigs, Profiles)

CallConfigurePll == Call("configure_pll", << >>, configure_pll)

CallConfigureSdram == Call("configure_sdram", << >>, configure_sdram)

CallConfigureDisplayTiming ==
  Call("configure_display_timing", << >>, configure_display_timing(config))

CallConfigureMainWindow ==
  \E timing \in AllConfigs :
    Call("configure_main_window", << timing >>, configure_main_window(timing))

NextMethods ==
  \/ CallConfigurePll
  \/ CallConfigureSdram
  \/ CallConfigureDisplayTiming
  \/ CallConfigureMainWindow
  \/ CallSetActiveWindow
  \/ CallSetForegroundColor
  \/ CallDrawFilledRectangle
  \/ CallDrawLine
  \/ CallClearScreen
  \/ WriteCommand
  \/ WriteData
  \/ Delay
  \/ ArithmeticOverflow
  \/ Return
  \/ Drop
  \/ ChipDrawDone

SpecMethods == InitMethods /\ [][NextMethods]_vars

----------------------------------------------------------------------------
(* The example firmware, examples/stm32f411_4_wire_spi/src/main.rs 47-92:   *)
(* the statements of main from the construction of the driver on.  A call   *)
(* whose result is unwrapped panics on Err, and the panic handler halts.    *)

(* A statement of main: the method called, whether its result is unwrapped, *)
(* and its argument (the delay in ms, the colour).                          *)
Statement(f, unwrap, arg) == << f, unwrap, arg >>

Shapes == {"draw_circle", "draw_ellipse", "draw_rounded_rectangle", "draw_triangle",
           "write_text"}

\* A main that unwraps the result of the colour-bar test as well.
main_unwrap_all ==
  << Statement("init_color_bar_test", TRUE, 0), Statement("delay_ms", FALSE, 1000),
     Statement("init", TRUE, 0), Statement("clear_screen", TRUE, 0) >>
  \o << Statement("draw_circle", TRUE, 0), Statement("draw_circle", TRUE, 0),
        Statement("write_text", TRUE, 0) >>

main ==
  << Statement("init_color_bar_test", FALSE, 0), Statement("delay_ms", FALSE, 1000),
     Statement("init", TRUE, 0), Statement("clear_screen", TRUE, 0) >>
  \o << Statement("draw_circle", TRUE, 0), Statement("draw_circle", TRUE, 0),
        Statement("write_text", TRUE, 0),
        Statement("draw_ellipse", TRUE, 0), Statement("draw_ellipse", TRUE, 0),
        Statement("write_text", TRUE, 0),
        Statement("draw_rounded_rectangle", TRUE, 0), Statement("draw_rounded_rectangle", TRUE, 0),
        Statement("write_text", TRUE, 0),
        Statement("draw_triangle", TRUE, 0), Statement("draw_triangle", TRUE, 0),
        Statement("write_text", TRUE, 0),
        Statement("draw_circle", TRUE, 0), Statement("draw_triangle", TRUE, 0) >>
  \o [k \in 1 .. 16 |-> Statement("draw_circle", TRUE, 0)]
  \o << Statement("write_text", TRUE, 0), Statement("draw_rounded_rectangle", TRUE, 0),
        Statement("write_text", TRUE, 0), Statement("draw_rounded_rectangle", TRUE, 0),
        Statement("draw_rounded_rectangle", TRUE, 0), Statement("write_text", TRUE, 0) >>

MainAt == firmware.state = "running" /\ firmware.pc <= Len(main)
MainStatement == main[firmware.pc]

(* The statement is over with result r: main goes on, or panics on an Err   *)
(* it unwraps.                                                              *)
MainNext(r) ==
  firmware' = [state |-> IF MainStatement[2] /\ r = "Err"
                         THEN "panicked" ELSE "running",
               pc |-> IF MainStatement[2] /\ r = "Err"
                      THEN firmware.pc ELSE firmware.pc + 1,
               results |-> Append(firmware.results, r)]

(* display.init_color_bar_test(&mut delay), display.init(&mut delay),       *)
(* display.clear_screen(0x00): main calls the driver method.                *)
MainCallDriver ==
  /\ MainAt
  /\ \/ /\ MainStatement[1] = "init_color_bar_test"
        /\ Call("init_color_bar_test", << >>, init_color_bar_test(config))
     \/ /\ MainStatement[1] = "init"
        /\ Call("init", << config >>, init(config, config))
     \/ /\ MainStatement[1] = "clear_screen"
        /\ Call("clear_screen", << MainStatement[3] >>,
                clear_screen(config, MainStatement[3]))

(* The method has returned and main takes its result. *)
MainResult ==
  /\ MainAt
  /\ Taken
  /\ MainNext(result)

(* delay.delay_ms(1000) *)
MainDelay ==
  /\ MainAt
  /\ result = "idle"
  /\ MainStatement[1] = "delay_ms"
  /\ MainNext("Ok")
  /\ UNCHANGED << iface, config, overflow_checks, res, pins, core_busy, op, args, prog,
                  pc, phase, iter, log, wire, ret, result, err, fault, retval >>

(* A shape or text call with unwrap: the method is not part of the driver   *)
(* source; it returns Ok or the error of a transport call.                  *)
MainShapeCall ==
  /\ MainAt
  /\ result = "idle"
  /\ MainStatement[1] \in Shapes
  /\ \E r \in {"Ok", "Err"} : MainNext(r)
  /\ UNCHANGED << iface, config, overflow_checks, res, pins, core_busy, op, args, prog,
                  pc, phase, iter, log, wire, ret, result, err, fault, retval >>

(* loop {} at the end of main. *)
MainLoop ==
  /\ firmware.state = "running"
  /\ firmware.pc = Len(main) + 1
  /\ firmware' = [firmware EXCEPT !.state = "looping"]
  /\ UNCHANGED << iface, config, overflow_checks, res, pins, core_busy, op, args, prog,
                  pc, phase, iter, log, wire, ret, result, err, fault, retval >>

InitMain == Constructed({DefaultConfig}, {FALSE}) /\ iface = "spi"

NextMain ==
  \/ MainCallDriver
  \/ MainResult
  \/ MainDelay
  \/ MainShapeCall
  \/ MainLoop
  \/ WriteCommand
  \/ WriteData
  \/ ReadData
  \/ ReadStatusCall
  \/ Delay
  \/ PollDelay
  \/ ResetPin
  \/ Return
  \/ ChipDrawDone

SpecMain == InitMain /\ [][NextMain]_vars

----------------------------------------------------------------------------
(* The text and block-transfer operations, called one at a time. *)

CallWriteTextScaled ==
  \E text \in TextArgs, bg \in BackgroundArgs, scale_x \in ScaleArgs, scale_y \in ScaleArgs :
    Call("write_text_scaled", << text, 50, 320, bg, 16777215, scale_x, scale_y >>,
         write_text_scaled(config, text, 50, 320, bg, 16777215, scale_x, scale_y))

CallWriteText ==
  \E text \in TextArgs, bg \in BackgroundArgs :
    Call("write_text", << text, 50, 320, bg, 16777215 >>,
         write_text(config, text, 50, 320, bg, 16777215))

CallBteSolidFill ==
  \E p \in PointArgs, size \in SizeArgs, color \in RgbArgs :
    Call("bte_solid_fill", << p[1], p[2], size[1], size[2], color >>,
         bte_solid_fill(config, p[1], p[2], size[1], size[2], color))

CallBteMemoryCopy ==
  \E s \in PointArgs, d \in PointArgs, size \in SizeArgs :
    Call("bte_memory_copy", << s[1], s[2], d[1], d[2], size[1], size[2] >>,
         bte_memory_copy(config, s[1], s[2], d[1], d[2], size[1], size[2]))

NextDocumented ==
  \/ CallWriteTextScaled
  \/ CallWriteText
  \/ CallBteSolidFill
  \/ CallBteMemoryCopy
  \/ WriteCommand
  \/ WriteData
  \/ ReadData
  \/ Return
  \/ Drop

SpecDocumented == Init /\ [][NextDocumented]_vars

----------------------------------------------------------------------------
(* Reading the log. *)

Last(l) == l[Len(l)]

TransportCalls == {"write_command", "write_data", "read_data", "read_status"}

(* The register writes among events lo .. hi of l, in order, as             *)
(* << register, byte >> pairs: a write_data event carries the byte, the     *)
(* write_command before it the register.                                    *)
RECURSIVE WritesIn(_, _, _)
WritesIn(l, lo, hi) ==
  IF lo > hi THEN << >>
  ELSE IF lo = hi
       THEN IF l[lo].op = "write_data"
            THEN << << l[lo - 1].arg, l[lo].arg >> >>
            ELSE << >>
       ELSE LET mid == (lo + hi) \div 2
            IN WritesIn(l, lo, mid) \o WritesIn(l, mid + 1, hi)

RegWrites(l) == WritesIn(l, 2, Len(l))

Positions(l, name) == {i \in 1 .. Len(l) : l[i].op = name}

Finished == pc > Len(prog)

(* The << register, byte >> pairs a list of write_register steps writes. *)
ProgramWrites(p) == [i \in 1 .. Len(p) |-> << p[i].a, p[i].b >>]

FirstPosition(l, name) ==
  CHOOSE i \in 1 .. Len(l) : l[i].op = name /\ \A j \in 1 .. (i - 1) : l[j].op # name

(* The status poll recorded in l ran out of attempts: from its first status *)
(* read on, 100 reads were each followed by the 10 ms delay of an attempt   *)
(* that did not see the ready bit.                                          *)
PollExhausted(l) ==
  /\ Len(l) >= 200
  /\ \E i \in 1 .. Len(l) : l[i].op = "read_status"
  /\ LET first == FirstPosition(l, "read_status") IN
     /\ Len(l) >= first + 199
     /\ \A k \in 0 .. 99 :
          /\ l[first + 2 * k] = Ev("read_status", 0)
          /\ l[first + 2 * k + 1] = Ev("delay_ms", 10)

----------------------------------------------------------------------------
(* C1: write_register(reg, byte) that succeeds has made exactly two         *)
(* transport calls, write_command(reg) and then write_data(byte), and       *)
(* nothing else, for every register and byte.                               *)
C1_WriteRegisterCommandThenData ==
  (op = "write_register" /\ result = "Ok") =>
    log = << Ev("write_command", args[1]), Ev("write_data", args[2]) >>

C1_Witness ==
  /\ op = "write_register"
  /\ result = "Ok"
  /\ args = << Srr, 1 >>
  /\ Len(log) = 2

(* C2: in write_register and read_register an error comes from a failed     *)
(* transport call and is returned unchanged; when write_command fails the   *)
(* second call is never made; otherwise the failed call is the second one.  *)
C2_RegisterIoErrorPropagated ==
  (op \in {"write_register", "read_register"} /\ result = "Err") =>
    /\ fault \in Errors
    /\ err = fault
    /\ Len(log) \in {1, 2}
    /\ log[1] = Ev("write_command", args[1])
    /\ Len(log) = 2 =>
         log[2] = IF op = "write_register"
                  THEN Ev("write_data", args[2])
                  ELSE Ev("read_data", 0)

C2_Witness ==
  /\ op = "read_register"
  /\ result = "Err"
  /\ err = "E2"
  /\ Len(log) = 1

(* C3: on the SPI transport every write_command(reg) is one SPI write of    *)
(* the bytes [0x00, reg] and every write_data(b) is one SPI write of the    *)
(* bytes [0x80, b]; every transaction of any call is 2 bytes long.          *)
C3_SpiWriteFraming ==
  (iface = "spi" /\ log # << >> /\ Last(log).op \in TransportCalls) =>
    /\ Len(wire) = 1
    /\ Len(wire[1].tx) = 2
    /\ Last(log).op = "write_command" =>
         wire[1] = [k |-> "spi_write", tx |-> << 0, Last(log).arg >>, rx |-> << >>]
    /\ Last(log).op = "write_data" =>
         wire[1] = [k |-> "spi_write", tx |-> << 128, Last(log).arg >>, rx |-> << >>]

C3_Witness ==
  /\ iface = "spi"
  /\ op = "write_register"
  /\ args = << Dpcr, 255 >>
  /\ Len(log) = 2
  /\ wire[1].tx = << 128, 255 >>

(* C4: on the SPI transport read_data is one full-duplex exchange sending   *)
(* [0xC0, 0x00] and read_status one sending [0x40, 0x00]; the byte returned *)
(* is the second byte received, whatever the first.                         *)
C4_SpiReadFraming ==
  (iface = "spi" /\ log # << >> /\ Last(log).op \in {"read_data", "read_status"}) =>
    /\ Len(wire) = 1
    /\ wire[1].k = "spi_transfer"
    /\ wire[1].tx = (IF Last(log).op = "read_data" THEN << 192, 0 >> ELSE << 64, 0 >>)
    /\ Len(wire[1].rx) = 2
    /\ result # "Err" => ret = wire[1].rx[2]

C4_Witness ==
  /\ iface = "spi"
  /\ op = "read_register"
  /\ result = "Ok"
  /\ wire[1].rx = << 255, 4 >>
  /\ retval = 4

(* C5: a successful init has reset the chip first, then written the         *)
(* registers of software_reset, configure_pll, configure_sdram, polled the  *)
(* status for SDRAM readiness, written Ccr=0x80, Macr=0x40, Icr=0x00, the   *)
(* display-timing registers, Pcsr=0xC0, the main-window registers and last  *)
(* of all Dpcr=0xC0, in exactly this order.                                 *)
C5_InitOrder ==
  (op = "init" /\ result = "Ok") =>
    LET w == RegWrites(log)
        sdrcr == CHOOSE i \in 1 .. Len(log) : log[i] = Ev("write_command", Sdrcr)
        macr == CHOOSE i \in 1 .. Len(log) : log[i] = Ev("write_command", Macr)
        pll == CHOOSE i \in 1 .. Len(log) : log[i] = Ev("write_command", Ppllc1)
    IN
    /\ SubSeq(log, 1, 4) =
         << Ev("set_low", 0), Ev("delay_ms", 10), Ev("set_high", 0), Ev("delay_ms", 100) >>
    /\ [i \in 1 .. Len(w) |-> w[i][1]] =
         << Srr,
            Ppllc1, Ppllc2, Mpllc1, Mpllc2, Cpllc1, Cpllc2, Ccr, Ccr,
            Sdrar, Sdrmd, SdrRef1, SdrRef2, Sdrcr,
            Ccr, Macr, Icr,
            Hdwr, Hdwftr, Hndr, Hndftr, Hstr, Hpwr,
            Vdhr1, Vdhr2, Vndr1, Vndr2, Vstr, Vpwr,
            Pcsr,
            Mpwctr, Misa1, Misa2, Misa3, Misa4, Miw1, Miw2,
            Mwulx1, Mwulx2, Mwuly1, Mwuly2,
            Cvssa1, Cvssa2, Cvssa3, Cvssa4, CvsImwth1, CvsImwth2,
            AwulX1, AwulX2, AwulY1, AwulY2, AwWth1, AwWth2, AwHt1, AwHt2,
            AwColor,
            Dpcr >>
    /\ w[1] = << Srr, 1 >>
    /\ w[15] = << Ccr, 128 >>
    /\ w[16] = << Macr, 64 >>
    /\ w[17] = << Icr, 0 >>
    /\ w[30] = << Pcsr, 192 >>
    /\ w[57] = << Dpcr, 192 >>
    /\ Last(log) = Ev("write_data", 192)
    \* the Srr reads of software_reset come before configure_pll
    /\ Positions(log, "read_data") # {}
    /\ Positions(log, "read_data") \subseteq 7 .. (pll - 1)
    \* the status reads come between configure_sdram and the Ccr=0x80 write
    /\ Positions(log, "read_status") # {}
    /\ Positions(log, "read_status") \subseteq (sdrcr + 3) .. (macr - 3)

C5_Witness ==
  /\ op = "init"
  /\ result = "Ok"
  /\ config = DefaultConfig
  /\ args = << SmallConfig >>
  /\ Cardinality(Positions(log, "read_status")) = 1

(* C6: hardware_reset drives the reset line low, waits 10 ms, drives it     *)
(* high and waits 100 ms, in that order and nothing else; init and          *)
(* init_color_bar_test begin with these four steps, so none of their        *)
(* transport calls comes before the 100 ms wait is over.                    *)
C6_ResetBeforeAccess ==
  (op \in {"hardware_reset", "init", "init_color_bar_test"}) =>
    LET reset == << Ev("set_low", 0), Ev("delay_ms", 10),
                    Ev("set_high", 0), Ev("delay_ms", 100) >>
    IN
    /\ \A i \in 1 .. Len(log) : i <= 4 => log[i] = reset[i]
    /\ \A i \in 1 .. Len(log) : log[i].op \in TransportCalls => i > 4
    /\ op = "hardware_reset" =>
         /\ Len(log) <= 4
         /\ result # "Err"
         /\ Finished <=> log = reset

C6_Witness ==
  /\ op = "init_color_bar_test"
  /\ Len(log) = 5
  /\ log[4] = Ev("delay_ms", 100)
  /\ log[5] = Ev("write_command", Srr)
  /\ res = 1

(* C7: while no status byte read by wait_sdram_ready has bit 2 set, the     *)
(* method keeps polling: its accesses are status reads, each followed by a  *)
(* 10 ms delay, and it is finished exactly when 100 reads (and the delay    *)
(* after the 100th) have been made; it then returns false and no error.     *)
(* A read with bit 2 set ends it at once with true; an error comes only     *)
(* from a failed status read.                                               *)
C7_WaitSdramReadyBounded ==
  (op = "wait_sdram_ready") =>
    LET n == Len(log)
        ready == n > 0 /\ log[n].op = "read_status" /\ fault = "none"
                 /\ Bit(ret, 2) = 1
    IN
    /\ n <= 200
    /\ \A i \in 1 .. n :
         log[i] = IF i % 2 = 1 THEN Ev("read_status", 0) ELSE Ev("delay_ms", 10)
    /\ result = "Err" => (fault \in Errors /\ err = fault /\ log[n].op = "read_status")
    /\ ready => (Finished /\ retval = 1 /\ result \in {"running", "Ok"})
    /\ (~ready /\ fault = "none") =>
         /\ result \in {"running", "Ok"}
         /\ Finished <=> n = 200
         /\ Finished => retval = 0
         /\ result = "Ok" => Cardinality(Positions(log, "read_status")) = 100

C7_Witness ==
  /\ op = "wait_sdram_ready"
  /\ result = "Ok"
  /\ retval = 0
  /\ Len(log) = 200
  /\ log[199] = Ev("read_status", 0)
  /\ log[200] = Ev("delay_ms", 10)

(* C8: once the SDRAM poll of init has made its 100 status reads without    *)
(* seeing the ready bit, init goes on: every later instruction is a         *)
(* register write, only a failed transport call can end it with an error,   *)
(* and when it is finished the writes after the poll were Ccr=0x80,         *)
(* Macr=0x40, Icr=0x00, the timing registers, Pcsr=0xC0, the main-window    *)
(* registers and last Dpcr=0xC0, and the result is success.                 *)
C8_InitProceedsAfterSdramTimeout ==
  (op = "init" /\ PollExhausted(log)) =>
    LET first == FirstPosition(log, "read_status")
        after == WritesIn(log, first + 200, Len(log))
    IN
    /\ Cardinality(Positions(log, "read_status")) = 100
    /\ result = "Err" =>
         (fault \in Errors /\ err = fault /\ Last(log).op \in TransportCalls)
    /\ (result = "running" /\ ~Finished) => Instr.i = "write_register"
    /\ (fault = "none" /\ Finished) =>
         /\ result \in {"running", "Ok"}
         /\ [i \in 1 .. Len(after) |-> after[i][1]] =
              << Ccr, Macr, Icr,
                 Hdwr, Hdwftr, Hndr, Hndftr, Hstr, Hpwr,
                 Vdhr1, Vdhr2, Vndr1, Vndr2, Vstr, Vpwr,
                 Pcsr,
                 Mpwctr, Misa1, Misa2, Misa3, Misa4, Miw1, Miw2,
                 Mwulx1, Mwulx2, Mwuly1, Mwuly2,
                 Cvssa1, Cvssa2, Cvssa3, Cvssa4, CvsImwth1, CvsImwth2,
                 AwulX1, AwulX2, AwulY1, AwulY2, AwWth1, AwWth2, AwHt1, AwHt2,
                 AwColor,
                 Dpcr >>
         /\ after[1] = << Ccr, 128 >>
         /\ after[2] = << Macr, 64 >>
         /\ after[3] = << Icr, 0 >>
         /\ after[16] = << Pcsr, 192 >>
         /\ after[43] = << Dpcr, 192 >>
         /\ Last(log) = Ev("write_data", 192)

C8_Witness ==
  /\ op = "init"
  /\ result = "Ok"
  /\ PollExhausted(log)
  /\ Last(log) = Ev("write_data", 192)
  /\ log[Len(log) - 1] = Ev("write_command", Dpcr)

(* C9: software_reset writes Srr=0x01 first and then only reads Srr, each   *)
(* read whose bit 0 is still set being followed by a 1 ms delay; it is      *)
(* finished at the first read whose bit 0 is clear, and otherwise exactly   *)
(* after the 100th read and its delay; both ways it returns success, and    *)
(* an error comes only from a failed transport call.                        *)
C9_SoftwareResetPoll ==
  (op = "software_reset") =>
    LET n == Len(log)
        done == n > 2 /\ log[n].op = "read_data" /\ fault = "none" /\ Bit(ret, 0) = 0
    IN
    /\ n <= 302
    /\ \A i \in 1 .. n :
         log[i] = IF i = 1 THEN Ev("write_command", Srr)
                  ELSE IF i = 2 THEN Ev("write_data", 1)
                  ELSE CASE i % 3 = 0 -> Ev("write_command", Srr)
                         [] i % 3 = 1 -> Ev("read_data", 0)
                         [] i % 3 = 2 -> Ev("delay_ms", 1)
    /\ result = "Err" =>
         (fault \in Errors /\ err = fault /\ log[n].op \in TransportCalls)
    /\ done => (Finished /\ result \in {"running", "Ok"})
    /\ (~done /\ fault = "none") =>
         /\ result \in {"running", "Ok"}
         /\ Finished <=> n = 302
         /\ result = "Ok" => Cardinality(Positions(log, "read_data")) = 100

C9_Witness ==
  /\ op = "software_reset"
  /\ result = "Ok"
  /\ Len(log) = 302
  /\ log[301] = Ev("read_data", 0)
  /\ log[302] = Ev("delay_ms", 1)

\* software_reset that ended at its second read, the first with bit 0 clear.
C9_WitnessFirstClear ==
  /\ op = "software_reset"
  /\ result = "Ok"
  /\ Len(log) = 7
  /\ ret = 254

(* C10: draw_line and draw_filled_rectangle return only after a status read *)
(* that showed the core-busy bit (bit 3) clear, so the draw engine is idle  *)
(* when they return.                                                        *)
C10_DrawReturnsWhenIdle ==
  (op \in {"draw_line", "draw_filled_rectangle"} /\ result = "Ok") =>
    /\ Last(log).op = "read_status"
    /\ Bit(ret, 3) = 0
    /\ ~core_busy

(* C11: draw_line(x1, y1, x2, y2, color) writes the three foreground colour *)
(* registers, then Dlhsr1/2 = low/high byte of x1, Dlvsr1/2 of y1,          *)
(* Dlher1/2 of x2, Dlver1/2 of y2, then Dcr0 = 0x80, in this order and      *)
(* nothing else; Dcr0 is addressed only as the twelfth write, and no status *)
(* read comes before it.                                                    *)
C11_DrawLineOrder ==
  (op = "draw_line") =>
    /\ \A i \in 1 .. Len(log) :
         /\ log[i] = Ev("write_command", Dcr0) => i = 23
         /\ log[i].op = "read_status" => i > 24
    /\ result = "Ok" =>
         LET w == RegWrites(log) IN
         /\ Len(log) = 24
         /\ Len(w) = 12
         /\ << w[1][1], w[2][1], w[3][1] >> = << Fgcr, Fgcg, Fgcb >>
         /\ w[4] = << Dlhsr1, args[1] % 256 >>
         /\ w[5] = << Dlhsr2, args[1] \div 256 >>
         /\ w[6] = << Dlvsr1, args[2] % 256 >>
         /\ w[7] = << Dlvsr2, args[2] \div 256 >>
         /\ w[8] = << Dlher1, args[3] % 256 >>
         /\ w[9] = << Dlher2, args[3] \div 256 >>
         /\ w[10] = << Dlver1, args[4] % 256 >>
         /\ w[11] = << Dlver2, args[4] \div 256 >>
         /\ w[12] = << Dcr0, 128 >>

C11_Witness ==
  /\ op = "draw_line"
  /\ result = "Ok"
  /\ SubSeq(args, 1, 4) = << 10, 20, 300, 65535 >>
  /\ RegWrites(log)[8] = << Dlher1, 44 >>
  /\ RegWrites(log)[9] = << Dlher2, 1 >>

(* C12: draw_filled_rectangle(x1, y1, x2, y2, color) makes the colour and   *)
(* coordinate writes of draw_line and then starts the draw by writing       *)
(* Dcr1 = 0xE0; it never writes Dcr0.                                       *)
C12_FilledRectangleStartsViaDcr1 ==
  (op = "draw_filled_rectangle" /\ result = "Ok") =>
    LET w == RegWrites(log) IN
    /\ Len(w) = 12
    /\ << w[1][1], w[2][1], w[3][1] >> = << Fgcr, Fgcg, Fgcb >>
    /\ w[4] = << Dlhsr1, args[1] % 256 >>
    /\ w[5] = << Dlhsr2, args[1] \div 256 >>
    /\ w[6] = << Dlvsr1, args[2] % 256 >>
    /\ w[7] = << Dlvsr2, args[2] \div 256 >>
    /\ w[8] = << Dlher1, args[3] % 256 >>
    /\ w[9] = << Dlher2, args[3] \div 256 >>
    /\ w[10] = << Dlver1, args[4] % 256 >>
    /\ w[11] = << Dlver2, args[4] \div 256 >>
    /\ w[12] = << Dcr1, 224 >>
    /\ \A i \in 1 .. Len(w) : w[i][1] # Dcr0

\* What the code does instead: the same eleven writes, then Dcr0 = 0xB0.
C12_StartsViaDcr0 ==
  (op = "draw_filled_rectangle" /\ result = "Ok") =>
    LET w == RegWrites(log) IN
    /\ Len(w) = 12
    /\ w[4] = << Dlhsr1, args[1] % 256 >>
    /\ w[11] = << Dlver2, args[4] \div 256 >>
    /\ w[12] = << Dcr0, 176 >>
    /\ \A i \in 1 .. Len(w) : w[i][1] # Dcr1

(* C13: clear_screen(color) makes exactly the transport accesses of         *)
(* draw_filled_rectangle(0, 0, config.width - 1, config.height - 1, color)  *)
(* for the driver's own configuration, the subtractions being u16; under    *)
(* the default configuration the far corner is (1023, 599).  When the       *)
(* subtraction panics nothing has been accessed.                            *)
C13_ClearScreenIsFullRectangle ==
  /\ (op = "draw_filled_rectangle" /\ result = "Ok") =>
       /\ Len(log) = 24
       /\ RegWrites(log) =
            ProgramWrites(draw_filled_rectangle(config, args[1], args[2], args[3],
                                                args[4], args[5]))
  /\ (op = "clear_screen" /\ result = "Ok") =>
       LET w == RegWrites(log)
           far_x == (config.width - 1) % 65536
           far_y == (config.height - 1) % 65536
       IN
       /\ Len(log) = 24
       /\ w = ProgramWrites(draw_filled_rectangle(config, 0, 0, far_x, far_y, args[1]))
       /\ << w[4], w[5], w[6], w[7] >> =
            << << Dlhsr1, 0 >>, << Dlhsr2, 0 >>, << Dlvsr1, 0 >>, << Dlvsr2, 0 >> >>
       /\ << w[8], w[9] >> = << << Dlher1, far_x % 256 >>, << Dlher2, far_x \div 256 >> >>
       /\ << w[10], w[11] >> = << << Dlver1, far_y % 256 >>, << Dlver2, far_y \div 256 >> >>
       /\ config = DefaultConfig =>
            w = ProgramWrites(draw_filled_rectangle(config, 0, 0, 1023, 599, args[1]))
  /\ (op = "clear_screen" /\ result = "Panic") => log = << >>

C13_Witness ==
  /\ op = "clear_screen"
  /\ result = "Ok"
  /\ config = DefaultConfig
  /\ args = << 4779 >>
  /\ SubSeq(RegWrites(log), 8, 11) =
       << << Dlher1, 255 >>, << Dlher2, 3 >>, << Dlver1, 87 >>, << Dlver2, 2 >> >>

(* C14: set_foreground_color(c) reads c as 0x00RRGGBB and writes            *)
(* Fgcr = R & mR, Fgcg = G & mG, Fgcb = B & mB, the masks being             *)
(* (0xE0, 0xE0, 0xC0) at 8 bpp, (0xF8, 0xFC, 0xF8) at 16 bpp and            *)
(* (0xFF, 0xFF, 0xFF) at 24 bpp.  Clearing the low n bits of a byte x is    *)
(* x - (x % 2^n).                                                           *)
C14_ForegroundColorMasks ==
  (op = "set_foreground_color" /\ result = "Ok") =>
    LET c == args[1]
        R == (c \div 65536) % 256
        G == (c \div 256) % 256
        B == c % 256
        depth == config.color_depth
        lowR == IF depth = Bpp8 THEN 32 ELSE IF depth = Bpp16 THEN 8 ELSE 1
        lowG == IF depth = Bpp8 THEN 32 ELSE IF depth = Bpp16 THEN 4 ELSE 1
        lowB == IF depth = Bpp8 THEN 64 ELSE IF depth = Bpp16 THEN 8 ELSE 1
    IN RegWrites(log) = << << Fgcr, R - (R % lowR) >>,
                           << Fgcg, G - (G % lowG) >>,
                           << Fgcb, B - (B % lowB) >> >>

(* C15: for a configuration whose horizontal fields are at least 8 and      *)
(* whose vertical fields are at least 1, configure_display_timing does not  *)
(* panic and writes exactly Hdwr = width/8 - 1, Hdwftr = width mod 8,       *)
(* Hndr = h_back_porch/8 - 1, Hndftr = h_back_porch mod 8,                  *)
(* Hstr = h_front_porch/8 - 1, Hpwr = h_sync_width/8 - 1, Vdhr1/Vdhr2 =     *)
(* low/high byte of height - 1, Vndr1 = v_back_porch - 1, Vndr2 = 0,        *)
(* Vstr = v_front_porch - 1, Vpwr = v_sync_width - 1, each reduced to its   *)
(* low 8 bits; the default configuration gives 127, 0, 19, 0 for the first  *)
(* four.                                                                    *)
C15_DisplayTimingArithmetic ==
  (/\ op = "configure_display_timing"
   /\ config.width >= 8 /\ config.h_back_porch >= 8
   /\ config.h_front_porch >= 8 /\ config.h_sync_width >= 8
   /\ config.height >= 1 /\ config.v_back_porch >= 1
   /\ config.v_front_porch >= 1 /\ config.v_sync_width >= 1) =>
    /\ result # "Panic"
    /\ result = "Ok" =>
         LET w == RegWrites(log) IN
         /\ Len(log) = 24
         /\ w = << << Hdwr, ((config.width \div 8) - 1) % 256 >>,
                   << Hdwftr, config.width % 8 >>,
                   << Hndr, ((config.h_back_porch \div 8) - 1) % 256 >>,
                   << Hndftr, config.h_back_porch % 8 >>,
                   << Hstr, ((config.h_front_porch \div 8) - 1) % 256 >>,
                   << Hpwr, ((config.h_sync_width \div 8) - 1) % 256 >>,
                   << Vdhr1, (config.height - 1) % 256 >>,
                   << Vdhr2, ((config.height - 1) \div 256) % 256 >>,
                   << Vndr1, (config.v_back_porch - 1) % 256 >>,
                   << Vndr2, 0 >>,
                   << Vstr, (config.v_front_porch - 1) % 256 >>,
                   << Vpwr, (config.v_sync_width - 1) % 256 >> >>
         /\ config = DefaultConfig =>
              SubSeq(w, 1, 4) =
                << << Hdwr, 127 >>, << Hdwftr, 0 >>, << Hndr, 19 >>, << Hndftr, 0 >> >>

C15_Witness ==
  /\ op = "configure_display_timing"
  /\ result = "Ok"
  /\ config = BigConfig
  /\ RegWrites(log)[1] = << Hdwr, 135 >>
  /\ RegWrites(log)[2] = << Hdwftr, 4 >>
  /\ RegWrites(log)[11] = << Vstr, 43 >>

(* C16: configure_main_window(timing) writes Mpwctr = 0x04, 0 to Misa1..4   *)
(* and to Cvssa1..4, and the byte stride timing.width * 2 little-endian     *)
(* into both Miw1/Miw2 and CvsImwth1/CvsImwth2, for every width: the value  *)
(* stored is always width * 2.                                              *)
C16_StrideIsTwiceWidth ==
  (op = "configure_main_window" /\ result = "Ok") =>
         LET w == RegWrites(log)
             stride == args[1].width * 2
         IN
         /\ w[1] = << Mpwctr, 4 >>
         /\ SubSeq(w, 2, 5) =
              << << Misa1, 0 >>, << Misa2, 0 >>, << Misa3, 0 >>, << Misa4, 0 >> >>
         /\ SubSeq(w, 12, 15) =
              << << Cvssa1, 0 >>, << Cvssa2, 0 >>, << Cvssa3, 0 >>, << Cvssa4, 0 >> >>
         /\ << w[6][1], w[7][1] >> = << Miw1, Miw2 >>
         /\ << w[16][1], w[17][1] >> = << CvsImwth1, CvsImwth2 >>
         /\ << w[6][2], w[7][2] >> = << w[16][2], w[17][2] >>
         /\ w[6][2] + 256 * w[7][2] = stride

(* C17: the byte configure_main_window writes into AwColor is the numeric   *)
(* code of the configured ColorDepth: 0 at 8 bpp, 1 at 16 bpp, 2 at 24 bpp. *)
(* The depth may be read from the driver's configuration or from the        *)
(* DisplayConfig handed to init; the byte is to match one of the two.       *)
C17_AwColorIsConfiguredDepth ==
  (op = "configure_main_window" /\ result = "Ok") =>
    LET w == RegWrites(log)
        code(depth) == CASE depth = Bpp8 -> 0 [] depth = Bpp16 -> 1 [] depth = Bpp24 -> 2
    IN
    /\ Last(w)[1] = AwColor
    /\ Last(w)[2] \in {code(config.color_depth), code(args[1].color_depth)}

(* C18: when init has succeeded the active window it programmed is          *)
(* (0, 0, W, H) with W and H the panel width and height of the driver's own *)
(* configuration, the same that it programmed into the display timing:      *)
(* W = (Hdwr + 1) * 8 + Hdwftr and H = Vdhr + 1.                            *)
C18_ActiveWindowIsPanel ==
  (op = "init" /\ result = "Ok") =>
    LET w == RegWrites(log)
        X == w[48][2] + 256 * w[49][2]
        Y == w[50][2] + 256 * w[51][2]
        W == w[52][2] + 256 * w[53][2]
        H == w[54][2] + 256 * w[55][2]
    IN
    /\ << w[48][1], w[50][1], w[52][1], w[54][1] >> = << AwulX1, AwulY1, AwWth1, AwHt1 >>
    /\ << w[18][1], w[19][1], w[24][1], w[25][1] >> = << Hdwr, Hdwftr, Vdhr1, Vdhr2 >>
    /\ << X, Y, W, H >> = << 0, 0, config.width, config.height >>
    /\ W = (w[18][2] + 1) * 8 + w[19][2]
    /\ H = w[24][2] + 256 * w[25][2] + 1

(* The 16-bit values the finished method wrote as two registers, each as    *)
(* << position of the low write among the register writes, low register,    *)
(* value >>.                                                                *)
Pairs16 ==
  CASE op = "set_active_window" ->
         << << 1, AwulX1, args[1] >>, << 3, AwulY1, args[2] >>,
            << 5, AwWth1, args[3] >>, << 7, AwHt1, args[4] >> >>
    [] op \in {"draw_line", "draw_filled_rectangle"} ->
         << << 4, Dlhsr1, args[1] >>, << 6, Dlvsr1, args[2] >>,
            << 8, Dlher1, args[3] >>, << 10, Dlver1, args[4] >> >>
    [] op = "clear_screen" ->
         << << 4, Dlhsr1, 0 >>, << 6, Dlvsr1, 0 >>,
            << 8, Dlher1, u16_sub(config.width, 1) >>,
            << 10, Dlver1, u16_sub(config.height, 1) >> >>
    [] op = "configure_display_timing" ->
         << << 7, Vdhr1, u16_sub(config.height, 1) >> >>
    [] op = "configure_main_window" ->
         << << 6, Miw1, u16_mul(args[1].width, 2) >>,
            << 16, CvsImwth1, u16_mul(args[1].width, 2) >>,
            << 18, AwulX1, 0 >>, << 20, AwulY1, 0 >>,
            << 22, AwWth1, args[1].width >>, << 24, AwHt1, args[1].height >> >>
    [] op = "configure_sdram" -> << << 3, SdrRef1, sdram_itv >> >>
    [] OTHER -> << >>

(* C19: every 16-bit value v the driver writes (the four set_active_window  *)
(* pairs in the order AwulX, AwulY, AwWth, AwHt; the draw coordinates;      *)
(* Vdhr; Miw; CvsImwth; SdrRef) goes to two adjacent registers: register a  *)
(* receives v mod 256 first, register a + 1 receives v div 256 next, and    *)
(* low + 256 * high = v, for every v in 0 .. 65535.                         *)
C19_SixteenBitLittleEndian ==
  (result = "Ok") =>
    LET w == RegWrites(log) IN
    /\ \A k \in 1 .. Len(Pairs16) :
         LET p == Pairs16[k][1]
             a == Pairs16[k][2]
             v == Pairs16[k][3]
         IN
         /\ v \in 0 .. 65535
         /\ w[p] = << a, v % 256 >>
         /\ w[p + 1] = << a + 1, v \div 256 >>
         /\ w[p][2] + 256 * w[p + 1][2] = v
    /\ (op = "configure_sdram") =>
         \A v \in 0 .. 65535 :
           /\ as_u8(v) = v % 256
           /\ as_u8(shr8(v)) = v \div 256
           /\ as_u8(v) + 256 * as_u8(shr8(v)) = v

C19_Witness ==
  /\ op = "set_active_window"
  /\ result = "Ok"
  /\ args = << 16, 257, 300, 65535 >>
  /\ SubSeq(RegWrites(log), 3, 8) =
       << << AwulY1, 1 >>, << AwulY2, 1 >>, << AwWth1, 44 >>, << AwWth2, 1 >>,
          << AwHt1, 255 >>, << AwHt2, 255 >> >>

(* C20: configure_pll writes Ppllc1 = 0x06, Ppllc2 = 39, Mpllc1 = 0x04,     *)
(* Mpllc2 = 39, Cpllc1 = 0x04, Cpllc2 = 39, and only after these six writes *)
(* Ccr = 0x00, then waits 10 us, writes Ccr = 0x80 and waits 1 ms, in that  *)
(* order: what it has done so far is always a prefix of that sequence, and  *)
(* all of it once it has returned Ok.                                       *)
C20_PllSequence ==
  (op = "configure_pll") =>
    LET W(r, v) == << Ev("write_command", r), Ev("write_data", v) >>
        expected == W(Ppllc1, 6) \o W(Ppllc2, 39) \o W(Mpllc1, 4) \o W(Mpllc2, 39)
                    \o W(Cpllc1, 4) \o W(Cpllc2, 39)
                    \o W(Ccr, 0) \o << Ev("delay_us", 10) >>
                    \o W(Ccr, 128) \o << Ev("delay_ms", 1) >>
    IN
    /\ Len(log) <= Len(expected)
    /\ log = SubSeq(expected, 1, Len(log))
    /\ (result = "Ok") => log = expected

C20_Witness ==
  /\ op = "configure_pll"
  /\ result = "Ok"
  /\ Len(log) = 18
  /\ log[13] = Ev("write_command", Ccr)
  /\ log[15] = Ev("delay_us", 10)
  /\ log[18] = Ev("delay_ms", 1)

(* C21: configure_sdram writes Sdrar = 0x29, Sdrmd = 0x03, the refresh      *)
(* interval 779 low byte to SdrRef1 and high byte to SdrRef2, only then     *)
(* Sdrcr = 0x01, and then waits 10 ms; in init each of these writes comes   *)
(* right after the ones before it, and the first SDRAM-ready status read    *)
(* comes right after that delay.                                            *)
C21_SdramSequence ==
  (op = "init" /\ Len(log) > 0) =>
    LET n == Len(log)
        W(r, v) == << Ev("write_command", r), Ev("write_data", v) >>
        sdram == W(Sdrar, 41) \o W(Sdrmd, 3) \o W(SdrRef1, 779 % 256)
                 \o W(SdrRef2, 779 \div 256) \o W(Sdrcr, 1)
                 \o << Ev("delay_ms", 10) >>
        first_status == /\ log[n].op = "read_status"
                        /\ (n < 3 \/ log[n - 2].op # "read_status")
    IN
    /\ \A k \in {1, 3, 5, 7, 9} :
         /\ log[n] = sdram[k] =>
              (n >= k /\ SubSeq(log, n - k + 1, n) = SubSeq(sdram, 1, k))
         /\ (n >= 2 /\ log[n - 1] = sdram[k]) => log[n] = sdram[k + 1]
    /\ (n >= 3 /\ log[n - 2] = sdram[9]) => log[n] = sdram[11]
    /\ first_status => (n > 11 /\ SubSeq(log, n - 11, n - 1) = sdram)

C21_Witness ==
  /\ op = "init"
  /\ result = "running"
  /\ Len(log) > 11
  /\ Cardinality(Positions(log, "read_status")) = 1
  /\ log[Len(log)] = Ev("read_status", 0)
  /\ log[Len(log) - 1] = Ev("delay_ms", 10)
  /\ log[Len(log) - 2] = Ev("write_data", 1)
  /\ log[Len(log) - 3] = Ev("write_command", Sdrcr)

(* C22: init_color_bar_test performs hardware_reset, software_reset,        *)
(* configure_pll, the write Ccr = 0x80, configure_display_timing, the write *)
(* Pcsr = 0xC0 and last the write Dpcr = 0xE0.  It never addresses an SDRAM *)
(* register, a main-window, canvas or active-window register, and never     *)
(* reads the status register.                                               *)
C22_ColorBarTestSkipsMemory ==
  (op = "init_color_bar_test") =>
    LET w == RegWrites(log)
        skipped == {Sdrar, Sdrmd, SdrRef1, SdrRef2, Sdrcr,
                    Mpwctr, Misa1, Misa2, Misa3, Misa4, Miw1, Miw2,
                    Mwulx1, Mwulx2, Mwuly1, Mwuly2,
                    Cvssa1, Cvssa2, Cvssa3, Cvssa4, CvsImwth1, CvsImwth2,
                    AwulX1, AwulX2, AwulY1, AwulY2, AwWth1, AwWth2, AwHt1, AwHt2,
                    AwColor}
    IN
    /\ \A i \in 1 .. Len(log) :
         /\ log[i].op # "read_status"
         /\ log[i].op = "write_command" => log[i].arg \notin skipped
    /\ (result = "Ok") =>
         /\ SubSeq(log, 1, 4) = << Ev("set_low", 0), Ev("delay_ms", 10),
                                   Ev("set_high", 0), Ev("delay_ms", 100) >>
         /\ log[5] = Ev("write_command", Srr)
         /\ log[6] = Ev("write_data", 1)
         /\ Len(w) = 24
         /\ SubSeq(w, 1, 10) =
              << << Srr, 1 >>,
                 << Ppllc1, 6 >>, << Ppllc2, 39 >>, << Mpllc1, 4 >>, << Mpllc2, 39 >>,
                 << Cpllc1, 4 >>, << Cpllc2, 39 >>, << Ccr, 0 >>, << Ccr, 128 >>,
                 << Ccr, 128 >> >>
         /\ [i \in 1 .. 12 |-> w[10 + i][1]] =
              << Hdwr, Hdwftr, Hndr, Hndftr, Hstr, Hpwr,
                 Vdhr1, Vdhr2, Vndr1, Vndr2, Vstr, Vpwr >>
         /\ w[23] = << Pcsr, 192 >>
         /\ w[24] = << Dpcr, 224 >>
         /\ Last(log) = Ev("write_data", 224)

C22_Witness ==
  /\ op = "init_color_bar_test"
  /\ result = "Ok"
  /\ Last(log) = Ev("write_data", 224)
  /\ Cardinality(Positions(log, "read_data")) > 1

(* C23: on the parallel transport write_command sets RS low and RD high,    *)
(* drives the bus with the register address, then takes WR low and high     *)
(* again; write_data does the same with RS high and the data byte.  The bus *)
(* is driven before WR goes low, and WR and RD are high when the operation  *)
(* has returned.                                                            *)
C23_ParallelWriteCycle ==
  (iface = "parallel" /\ Len(log) > 0
   /\ Last(log).op \in {"write_command", "write_data"}) =>
    LET rs == IF Last(log).op = "write_command" THEN 0 ELSE 1 IN
    /\ wire = << Pin("rs", rs), Pin("rd", 1), BusWrite(Last(log).arg),
                 Pin("wr", 0), Pin("wr", 1) >>
    /\ \E d \in 1 .. Len(wire) :
         /\ wire[d].k = "bus_write"
         /\ \A s \in 1 .. Len(wire) : (wire[s].k = "wr" /\ wire[s].tx = << 0 >>) => d < s
    /\ pins.wr = 1
    /\ pins.rd = 1
    /\ result # "Err"

C23_Witness ==
  /\ iface = "parallel"
  /\ op = "write_register"
  /\ result = "Ok"
  /\ log = << Ev("write_command", Dpcr), Ev("write_data", 255) >>
  /\ wire[1] = Pin("rs", 1)
  /\ wire[3] = BusWrite(255)

(* C24: on the parallel transport read_data sets RS high and WR high,       *)
(* switches the bus to input, drives RD low, samples the bus while RD is    *)
(* low, drives RD high, switches the bus back to output and returns the     *)
(* sampled byte; read_status does the same steps with RS low, and nothing   *)
(* else differs between the two.  (A sample that fails ends the operation   *)
(* at the sample.)                                                          *)
C24_ParallelReadCycle ==
  (iface = "parallel" /\ Len(log) > 0
   /\ Last(log).op \in {"read_data", "read_status"}) =>
    LET rs == IF Last(log).op = "read_data" THEN 1 ELSE 0
        cycle(sampled) == << Pin("rs", rs), Pin("wr", 1), BusSetInput, Pin("rd", 0),
                             BusRead(sampled), Pin("rd", 1), BusSetOutput >>
    IN
    IF result = "Err"
    THEN wire = SubSeq(cycle(0), 1, 5)
    ELSE /\ wire = cycle(ret)
         /\ ret \in ReadBytes
         /\ pins.rd = 1
         /\ pins.out = 1

C24_Witness ==
  /\ iface = "parallel"
  /\ op = "read_register"
  /\ result = "Ok"
  /\ retval = 251
  /\ Last(log).op = "read_data"
  /\ wire[1] = Pin("rs", 1)
  /\ wire[5] = BusRead(251)
  /\ Len(wire) = 7

C24_WitnessStatus ==
  /\ iface = "parallel"
  /\ op = "read_status"
  /\ result = "Ok"
  /\ retval = 4
  /\ wire[1] = Pin("rs", 0)
  /\ wire[5] = BusRead(4)
  /\ Len(wire) = 7

(* C25: on the parallel transport CS is low during every write_command,     *)
(* write_data, read_data and read_status, after any sequence of transport   *)
(* operations.                                                              *)
C25_ChipSelectHeldLow ==
  (iface = "parallel" /\ Len(log) > 0 /\ Last(log).op \in TransportCalls) =>
    pins.cs = 0

(* C26: every register name has its documented address: Srr = 0x00,        *)
(* Ccr = 0x01, Dpcr = 0x12, Fgcr = 0xD2, Sdrar = 0xE0, BteCtrl0 = 0x90, and *)
(* each name of the documented register table is defined with the address   *)
(* the table gives; the address a write_command puts on the SPI bus for a   *)
(* register is that documented address.                                     *)
C26_RegisterMap ==
  /\ << Srr, Ccr, Macr, Icr, Mrwdp, Ppllc1, Ppllc2, Mpllc1 >>
       = << 0, 1, 2, 3, 4, 5, 6, 7 >>
  /\ << Mpllc2, Cpllc1, Cpllc2, Mpwctr, Dpcr, Pcsr, Hdwr, Hdwftr >>
       = << 8, 9, 10, 16, 18, 19, 20, 21 >>
  /\ << Hndr, Hndftr, Hstr, Hpwr, Vdhr1, Vdhr2, Vndr1, Vndr2 >>
       = << 22, 23, 24, 25, 26, 27, 28, 29 >>
  /\ << Vstr, Vpwr, Misa1, Misa2, Misa3, Misa4, Miw1, Miw2 >>
       = << 30, 31, 32, 33, 34, 35, 36, 37 >>
  /\ << Mwulx1, Mwulx2, Mwuly1, Mwuly2, Gtccr, Btcr, Curhs, Curvs >>
       = << 38, 39, 40, 41, 60, 61, 62, 63 >>
  /\ << Cvssa1, Cvssa2, Cvssa3, Cvssa4, CvsImwth1, CvsImwth2, AwulX1, AwulX2 >>
       = << 80, 81, 82, 83, 84, 85, 86, 87 >>
  /\ << AwulY1, AwulY2, AwWth1, AwWth2, AwHt1, AwHt2, AwColor, FCurx1 >>
       = << 88, 89, 90, 91, 92, 93, 94, 99 >>
  /\ << FCurx2, FCury1, FCury2, Dcr0, Dlhsr1, Dlhsr2, Dlvsr1, Dlvsr2 >>
       = << 100, 101, 102, 103, 104, 105, 106, 107 >>
  /\ << Dlher1, Dlher2, Dlver1, Dlver2, Dtph1, Dtph2, Dtpv1, Dtpv2 >>
       = << 108, 109, 110, 111, 112, 113, 114, 115 >>
  /\ << Dcr1, EllA1, EllA2, EllB1, EllB2, Dehr1, Dehr2, Devr1 >>
       = << 118, 119, 120, 121, 122, 123, 124, 125 >>
  /\ << Devr2, BteCtrl0, BteCtrl1, BteColr, S0Str0, S0Str1, S0Str2, S0Str3 >>
       = << 126, 144, 145, 146, 147, 148, 149, 150 >>
  /\ << S0Wth0, S0Wth1, S0X0, S0X1, S0Y0, S0Y1, S1Str0, S1Str1 >>
       = << 151, 152, 153, 154, 155, 156, 157, 158 >>
  /\ << S1Str2, S1Str3, DtStr0, DtStr1, DtStr2, DtStr3, DtWth0, DtWth1 >>
       = << 159, 160, 167, 168, 169, 170, 171, 172 >>
  /\ << DtX0, DtX1, DtY0, DtY1, BteWth0, BteWth1, BteHig0, BteHig1 >>
       = << 173, 174, 175, 176, 177, 178, 179, 180 >>
  /\ << Ccr0, Ccr1, Fldr, F2fssr, Fgcr, Fgcg, Fgcb, Bgcr >>
       = << 204, 205, 208, 209, 210, 211, 212, 213 >>
  /\ << Bgcg, Bgcb, CgramStr0, Pmu, Sdrar, Sdrmd, SdrRef1, SdrRef2 >>
       = << 214, 215, 219, 223, 224, 225, 226, 227 >>
  /\ << Sdrcr, Gpioad, Gpioa, Gpiob, Gpiocd, Gpioc, Gpiodd, Gpiod >>
       = << 228, 240, 241, 242, 243, 244, 245, 246 >>
  /\ (iface = "spi" /\ op = "write_register" /\ Len(log) > 0
      /\ Last(log).op = "write_command") =>
       LET documented == CASE args[1] = Srr -> 0
                           [] args[1] = Ccr -> 1
                           [] args[1] = Dpcr -> 18
                           [] args[1] = Fgcr -> 210
                           [] args[1] = Sdrar -> 224
                           [] OTHER -> args[1]
       IN wire = << SpiWrite(<< 0, documented >>) >>

C26_Witness ==
  /\ iface = "spi"
  /\ op = "write_register"
  /\ args[1] = Fgcr
  /\ Len(log) = 1
  /\ wire = << SpiWrite(<< 0, 210 >>) >>
  /\ BteCtrl0 = 144

(* C27: write_text_scaled takes as scale code of an axis scale - 1, not     *)
(* below 0 (the subtraction does not wrap) and not above 3, and writes      *)
(* (y_code << 2) | x_code into the low 4 bits of Ccr1; scale_x = 5,         *)
(* scale_y = 0 give x_code 3, y_code 0 and low bits 0x03; bit 0x40 of Ccr1  *)
(* is set exactly when no background colour is given.                       *)
C27_TextScaleCode ==
  (op = "write_text_scaled" /\ result = "Ok") =>
    LET w == RegWrites(log)
        code(scale) == CASE scale \in {0, 1} -> 0
                         [] scale = 2 -> 1
                         [] scale = 3 -> 2
                         [] OTHER -> 3
        x_code == code(args[6])
        y_code == code(args[7])
        ccr1 == w[2][2]
    IN
    /\ w[1] = << Ccr0, 0 >>
    /\ w[2][1] = Ccr1
    /\ ccr1 % 16 = y_code * 4 + x_code
    /\ (args[6] = 5 /\ args[7] = 0) => ccr1 % 16 = 3
    /\ (Bit(ccr1, 6) = 1) <=> (args[4] = << >>)
    /\ ccr1 \in {y_code * 4 + x_code, y_code * 4 + x_code + 64}

C27_Witness ==
  /\ op = "write_text_scaled"
  /\ result = "Ok"
  /\ args[6] = 5
  /\ args[7] = 0
  /\ args[4] = << >>
  /\ RegWrites(log)[2] = << Ccr1, 67 >>

(* C28: bte_solid_fill and bte_memory_copy write BteCtrl0 = 0x10 as the     *)
(* last write of their setup; then the control register is read again and   *)
(* again: after a read with bit 4 set the operation is still polling, after *)
(* a read with bit 4 clear it goes on to write 0x00 to BteCtrl0; that write *)
(* is its last step and it returns only after it, so it never returns      *)
(* while bit 4 keeps reading set.                                           *)
C28_BteWaitsThenDisables ==
  (op \in {"bte_solid_fill", "bte_memory_copy"}) =>
    LET n == Len(log)
        setup == IF op = "bte_solid_fill" THEN 40 ELSE 54
        control == Ev("write_command", BteCtrl0)
    IN
    /\ \A i \in 1 .. n :
         /\ (i < setup - 1) => (log[i] # control /\ log[i].op # "read_data")
         /\ (i = setup - 1) => log[i] = control
         /\ (i = setup) => log[i] = Ev("write_data", 16)
         /\ (i > setup /\ (i - setup) % 2 = 1) => log[i] = control
         /\ (i > setup /\ (i - setup) % 2 = 0) =>
              \/ log[i] = Ev("read_data", 0)
              \/ log[i] = Ev("write_data", 0) /\ i = n /\ log[i - 2].op = "read_data"
    /\ (result = "running" /\ n > 0 /\ Last(log).op = "read_data") =>
         IF Bit(ret, 4) = 1
         THEN Running /\ Instr = BtePoll
         ELSE Running /\ Instr = WriteRegister(BteCtrl0, 0) /\ pc = Len(prog)
    /\ (n > setup /\ Last(log) = control /\ result = "running" /\ Instr # BtePoll) =>
         (n > setup + 2 /\ log[n - 1].op = "read_data" /\ pc = Len(prog))
    /\ (result = "Ok") =>
         (n >= setup + 4 /\ Last(log) = Ev("write_data", 0) /\ log[n - 1] = control)

C28_Witness ==
  /\ op = "bte_solid_fill"
  /\ result = "Ok"
  /\ Cardinality(Positions(log, "read_data")) = 3
  /\ Last(log) = Ev("write_data", 0)
  /\ log[40] = Ev("write_data", 16)

(* C29: the example firmware runs init_color_bar_test first and goes on     *)
(* whatever its result, waits 1 second, runs init and then clears the       *)
(* screen to black, and only after both succeeded makes a shape or text     *)
(* call; an error of init or of any later call halts it, so that no call    *)
(* follows; main never returns: it is running, halted in the panic handler  *)
(* or in its final loop.                                                    *)
C29_ExampleFirmware ==
  LET r == firmware.results
      k == firmware.pc
  IN
  /\ firmware.state \in {"running", "panicked", "looping"}
  /\ Len(r) = IF firmware.state = "panicked" THEN k ELSE k - 1
  /\ (result # "idle") =>
       /\ firmware.state = "running"
       /\ k <= Len(main)
       /\ op = main[k][1]
       /\ op = "init_color_bar_test" <=> k = 1
       /\ op = "init" <=> k = 3
       /\ op = "clear_screen" <=> k = 4
       /\ op = "clear_screen" => args = << 0 >>
  /\ (k >= 3) => (main[2] = << "delay_ms", FALSE, 1000 >> /\ r[2] = "Ok")
  /\ (firmware.state = "panicked") =>
       (k >= 3 /\ r[k] = "Err" /\ result = "idle")
  /\ \A i \in 1 .. Len(r) :
       /\ (i >= 3 /\ r[i] = "Err") => (i = Len(r) /\ firmware.state = "panicked")
       /\ (main[i][1] \in Shapes) => (i > 4 /\ r[3] = "Ok" /\ r[4] = "Ok")
  /\ (firmware.state = "looping") =>
       (k = Len(main) + 1 /\ \A i \in 2 .. Len(r) : r[i] = "Ok")

C29_Witness ==
  /\ firmware.state = "panicked"
  /\ firmware.pc = 7
  /\ firmware.results = << "Err", "Ok", "Ok", "Ok", "Ok", "Ok", "Err" >>

C29_WitnessLoop ==
  /\ firmware.state = "looping"
  /\ firmware.results[1] = "Err"
  /\ Len(firmware.results) = 40

(* C30: after any sequence of operations on the parallel transport, failed  *)
(* bus reads included, the transport is idle when an operation has          *)
(* returned: RD high, WR high and the data bus an output; so a later        *)
(* write_command or write_data drives the bus while it is an output.        *)
C30_ParallelIdleOnReturn ==
  (iface = "parallel") =>
    /\ (result \in {"Ok", "Err"}) => (pins.rd = 1 /\ pins.wr = 1 /\ pins.out = 1)
    /\ (Len(log) > 0 /\ Last(log).op \in {"write_command", "write_data"}) => pins.out = 1

(* C31: in init, init_color_bar_test and the drawing operations the first   *)
(* transport call that fails ends the operation: the operation has failed   *)
(* exactly when a call has, its error is that call's error, the failed call *)
(* is the last call made and the remaining statements are not run; an init  *)
(* or init_color_bar_test that failed has not written the display-enable    *)
(* register Dpcr.                                                           *)
C31_FirstFailureEndsOperation ==
  (op \in {"init", "init_color_bar_test", "draw_line", "draw_filled_rectangle",
           "clear_screen"}) =>
    LET n == Len(log) IN
    /\ (fault # "none") <=> (result = "Err")
    /\ (result = "Err") =>
         /\ fault \in Errors
         /\ err = fault
         /\ n > 0
         /\ Last(log).op \in TransportCalls
         /\ Last(log) = Ev(Due.call, Due.arg)
         /\ pc <= Len(prog)
         /\ \A i \in 1 .. (n - 2) : log[i] # Ev("write_command", Dpcr)
         /\ ~(n >= 2 /\ log[n - 1] = Ev("write_command", Dpcr)
              /\ Last(log).op = "write_data" /\ ~CanFail(iface, "write_data"))

C31_Witness ==
  /\ op = "init"
  /\ result = "Err"
  /\ err = "E2"
  /\ Last(log) = Ev("write_data", 64)
  /\ log[Len(log) - 1] = Ev("write_command", Macr)

C31_WitnessDraw ==
  /\ op = "draw_line"
  /\ result = "Err"
  /\ Last(log) = Ev("write_command", Dcr0)

(* C32: hardware_reset makes no transport access and never fails: when the  *)
(* reset pin cannot be driven (the line stays where it was) the method      *)
(* still goes on to the next step, runs both delays and returns Ok, and     *)
(* init goes on to the Srr write of software_reset whatever the line did.   *)
C32_ResetPinFailureDiscarded ==
  LET n == Len(log)
      low_failed == n = 1 /\ res = 1
      high_failed == n >= 3 /\ res = 0
  IN
  /\ (op = "hardware_reset") =>
       /\ \A i \in 1 .. n : log[i].op \notin TransportCalls
       /\ wire = << >>
       /\ fault = "none"
       /\ result \in {"running", "Ok"}
       /\ (result = "Ok") =>
            /\ Positions(log, "delay_ms") = {2, 4}
            /\ n = 4
       /\ (low_failed \/ high_failed) => (result = "running" => pc = n + 1)
  /\ (op = "init" /\ n <= 4) =>
       /\ fault = "none"
       /\ result = "running"
       /\ pc = n + 1
  /\ (op = "init" /\ n >= 5) =>
       /\ log[2] = Ev("delay_ms", 10)
       /\ log[4] = Ev("delay_ms", 100)
       /\ log[5] = Ev("write_command", Srr)

C32_Witness ==
  /\ op = "init"
  /\ res = 0
  /\ Len(log) >= 6
  /\ log[3] = Ev("set_high", 0)
  /\ log[5] = Ev("write_command", Srr)
  /\ log[6] = Ev("write_data", 1)
  /\ fault = "none"

C32_WitnessReturn ==
  /\ op = "hardware_reset"
  /\ result = "Ok"
  /\ res = 0
  /\ Len(log) = 4

----------------------------------------------------------------------------
(* The two initialisation sequences under a scheduler that lets the method  *)
(* in progress take its next step: every transport call, delay and pin      *)
(* access returns.                                                          *)

MethodStep ==
  \/ WriteCommand
  \/ WriteData
  \/ ReadData
  \/ ReadStatusCall
  \/ Delay
  \/ PollDelay
  \/ ResetPin
  \/ Return

NextInit ==
  \/ CallInitColorBarTest
  \/ CallInit
  \/ WriteCommand
  \/ WriteData
  \/ ReadData
  \/ ReadStatusCall
  \/ Delay
  \/ PollDelay
  \/ ResetPin
  \/ Return
  \/ Drop

(* The driver built over the default panel; init's timing argument still   *)
(* ranges over Configs.                                                     *)
InitDefault == Constructed({DefaultConfig}, {FALSE})

SpecInit == InitDefault /\ [][NextInit]_vars /\ WF_vars(MethodStep)

(* The Srr reads made so far: read_data calls that follow the Srr command. *)
SrrReads(l) ==
  {i \in 2 .. Len(l) : l[i].op = "read_data" /\ l[i - 1] = Ev("write_command", Srr)}

(* C33: init and init_color_bar_test terminate whatever bytes the chip      *)
(* returns for status and Srr reads: a call in progress always reaches Ok   *)
(* or Err, having made at most 100 Srr reads and at most 100 status reads   *)
(* (init_color_bar_test: none), every read being one of the two polls'.     *)
C33_InitTerminates ==
  /\ [](op \in {"init", "init_color_bar_test"} =>
          /\ Cardinality(SrrReads(log)) <= 100
          /\ Cardinality(Positions(log, "read_status")) <= 100
          /\ Positions(log, "read_data") = SrrReads(log)
          /\ iter < 100
          /\ (op = "init_color_bar_test") => Positions(log, "read_status") = {})
  /\ (op \in {"init", "init_color_bar_test"} /\ result = "running")
       ~> (result \in {"Ok", "Err"})

C33_Witness ==
  /\ op = "init"
  /\ result = "Ok"
  /\ Cardinality(SrrReads(log)) = 100
  /\ Cardinality(Positions(log, "read_status")) = 100

----------------------------------------------------------------------------
(* The two copies of enum Register as sets of << name, address >> pairs,    *)
(* group by group as the source lists them: lib.rs 420-715 and              *)
(* registers.rs.                                                            *)

Register_configuration ==
  { << "Srr", 0 >>, << "Ccr", 1 >>, << "Macr", 2 >>, << "Icr", 3 >>,
    << "Mrwdp", 4 >> }

Register_pll ==
  { << "Ppllc1", 5 >>, << "Ppllc2", 6 >>, << "Mpllc1", 7 >>,
    << "Mpllc2", 8 >>, << "Cpllc1", 9 >>, << "Cpllc2", 10 >> }

Register_lcd ==
  { << "Mpwctr", 16 >>, << "Pipcdep", 17 >>, << "Dpcr", 18 >>,
    << "Pcsr", 19 >>, << "Hdwr", 20 >>, << "Hdwftr", 21 >>,
    << "Hndr", 22 >>, << "Hndftr", 23 >>, << "Hstr", 24 >>,
    << "Hpwr", 25 >>, << "Vdhr1", 26 >>, << "Vdhr2", 27 >>,
    << "Vndr1", 28 >>, << "Vndr2", 29 >>, << "Vstr", 30 >>,
    << "Vpwr", 31 >>, << "Misa1", 32 >>, << "Misa2", 33 >>,
    << "Misa3", 34 >>, << "Misa4", 35 >>, << "Miw1", 36 >>,
    << "Miw2", 37 >>, << "Mwulx1", 38 >>, << "Mwulx2", 39 >>,
    << "Mwuly1", 40 >>, << "Mwuly2", 41 >>, << "Pwdulx1", 42 >>,
    << "Pwdulx2", 43 >>, << "Pwduly1", 44 >>, << "Pwduly2", 45 >>,
    << "Pisa1", 46 >>, << "Pisa2", 47 >>, << "Pisa3", 48 >>,
    << "Pisa4", 49 >>, << "Piw1", 50 >>, << "Piw2", 51 >>,
    << "Pwiulx1", 52 >>, << "Pwiulx2", 53 >>, << "Pwiuly1", 54 >>,
    << "Pwiuly2", 55 >>, << "Pww1", 56 >>, << "Pww2", 57 >>,
    << "Pwh1", 58 >>, << "Pwh2", 59 >>, << "Gtccr", 60 >>,
    << "Btcr", 61 >>, << "Curhs", 62 >>, << "Curvs", 63 >>,
    << "Gchp1", 64 >>, << "Gchp2", 65 >>, << "Gcvp1", 66 >>,
    << "Gcvp2", 67 >>, << "Gcc0", 68 >>, << "Gcc1", 69 >>,
    << "Cvssa1", 80 >>, << "Cvssa2", 81 >>, << "Cvssa3", 82 >>,
    << "Cvssa4", 83 >>, << "CvsImwth1", 84 >>, << "CvsImwth2", 85 >>,
    << "AwulX1", 86 >>, << "AwulX2", 87 >>, << "AwulY1", 88 >>,
    << "AwulY2", 89 >>, << "AwWth1", 90 >>, << "AwWth2", 91 >>,
    << "AwHt1", 92 >>, << "AwHt2", 93 >>, << "AwColor", 94 >>,
    << "Curh1", 95 >>, << "Curh2", 96 >>, << "Curv1", 97 >>,
    << "Curv2", 98 >>, << "FCurx1", 99 >>, << "FCurx2", 100 >>,
    << "FCury1", 101 >>, << "FCury2", 102 >>, << "Dcr0", 103 >>,
    << "Dlhsr1", 104 >>, << "Dlhsr2", 105 >>, << "Dlvsr1", 106 >>,
    << "Dlvsr2", 107 >>, << "Dlher1", 108 >>, << "Dlher2", 109 >>,
    << "Dlver1", 110 >>, << "Dlver2", 111 >>, << "Dtph1", 112 >>,
    << "Dtph2", 113 >>, << "Dtpv1", 114 >>, << "Dtpv2", 115 >>,
    << "Dcr1", 118 >>, << "EllA1", 119 >>, << "EllA2", 120 >>,
    << "EllB1", 121 >>, << "EllB2", 122 >>, << "Dehr1", 123 >>,
    << "Dehr2", 124 >>, << "Devr1", 125 >>, << "Devr2", 126 >>,
    << "Fgcr", 210 >>, << "Fgcg", 211 >>, << "Fgcb", 212 >> }

Register_text ==
  { << "Ccr0", 204 >>, << "Ccr1", 205 >>, << "Fldr", 208 >>,
    << "F2fssr", 209 >>, << "Bgcr", 213 >>, << "Bgcg", 214 >>,
    << "Bgcb", 215 >>, << "CgramStr0", 219 >> }

Register_power ==
  { << "Pmu", 223 >> }

Register_ram ==
  { << "Sdrar", 224 >>, << "Sdrmd", 225 >>, << "SdrRef1", 226 >>,
    << "SdrRef2", 227 >>, << "Sdrcr", 228 >> }

Register_gpio ==
  { << "Gpioad", 240 >>, << "Gpioa", 241 >>, << "Gpiob", 242 >>,
    << "Gpiocd", 243 >>, << "Gpioc", 244 >>, << "Gpiodd", 245 >>,
    << "Gpiod", 246 >> }

Register ==
  Register_configuration
  \cup Register_pll
  \cup Register_lcd
  \cup Register_text
  \cup Register_power
  \cup Register_ram
  \cup Register_gpio

\* A copy of the configuration group whose data port has moved.
registers_Register_configuration_moved ==
  { << "Srr", 0 >>, << "Ccr", 1 >>, << "Macr", 2 >>, << "Icr", 3 >>,
    << "Mrwdp", 11 >> }

registers_Register_configuration ==
  { << "Srr", 0 >>, << "Ccr", 1 >>, << "Macr", 2 >>, << "Icr", 3 >>,
    << "Mrwdp", 4 >> }

registers_Register_pll ==
  { << "Ppllc1", 5 >>, << "Ppllc2", 6 >>, << "Mpllc1", 7 >>,
    << "Mpllc2", 8 >>, << "Cpllc1", 9 >>, << "Cpllc2", 10 >> }

registers_Register_lcd ==
  { << "Mpwctr", 16 >>, << "Pipcdep", 17 >>, << "Dpcr", 18 >>,
    << "Pcsr", 19 >>, << "Hdwr", 20 >>, << "Hdwftr", 21 >>,
    << "Hndr", 22 >>, << "Hndftr", 23 >>, << "Hstr", 24 >>,
    << "Hpwr", 25 >>, << "Vdhr1", 26 >>, << "Vdhr2", 27 >>,
    << "Vndr1", 28 >>, << "Vndr2", 29 >>, << "Vstr", 30 >>,
    << "Vpwr", 31 >>, << "Misa1", 32 >>, << "Misa2", 33 >>,
    << "Misa3", 34 >>, << "Misa4", 35 >>, << "Miw1", 36 >>,
    << "Miw2", 37 >>, << "Mwulx1", 38 >>, << "Mwulx2", 39 >>,
    << "Mwuly1", 40 >>, << "Mwuly2", 41 >>, << "Pwdulx1", 42 >>,
    << "Pwdulx2", 43 >>, << "Pwduly1", 44 >>, << "Pwduly2", 45 >>,
    << "Pisa1", 46 >>, << "Pisa2", 47 >>, << "Pisa3", 48 >>,
    << "Pisa4", 49 >>, << "Piw1", 50 >>, << "Piw2", 51 >>,
    << "Pwiulx1", 52 >>, << "Pwiulx2", 53 >>, << "Pwiuly1", 54 >>,
    << "Pwiuly2", 55 >>, << "Pww1", 56 >>, << "Pww2", 57 >>,
    << "Pwh1", 58 >>, << "Pwh2", 59 >>, << "Gtccr", 60 >>,
    << "Btcr", 61 >>, << "Curhs", 62 >>, << "Curvs", 63 >>,
    << "Gchp1", 64 >>, << "Gchp2", 65 >>, << "Gcvp1", 66 >>,
    << "Gcvp2", 67 >>, << "Gcc0", 68 >>, << "Gcc1", 69 >>,
    << "Cvssa1", 80 >>, << "Cvssa2", 81 >>, << "Cvssa3", 82 >>,
    << "Cvssa4", 83 >>, << "CvsImwth1", 84 >>, << "CvsImwth2", 85 >>,
    << "AwulX1", 86 >>, << "AwulX2", 87 >>, << "AwulY1", 88 >>,
    << "AwulY2", 89 >>, << "AwWth1", 90 >>, << "AwWth2", 91 >>,
    << "AwHt1", 92 >>, << "AwHt2", 93 >>, << "AwColor", 94 >>,
    << "Curh1", 95 >>, << "Curh2", 96 >>, << "Curv1", 97 >>,
    << "Curv2", 98 >>, << "FCurx1", 99 >>, << "FCurx2", 100 >>,
    << "FCury1", 101 >>, << "FCury2", 102 >>, << "Dcr0", 103 >>,
    << "Dlhsr1", 104 >>, << "Dlhsr2", 105 >>, << "Dlvsr1", 106 >>,
    << "Dlvsr2", 107 >>, << "Dlher1", 108 >>, << "Dlher2", 109 >>,
    << "Dlver1", 110 >>, << "Dlver2", 111 >>, << "Dtph1", 112 >>,
    << "Dtph2", 113 >>, << "Dtpv1", 114 >>, << "Dtpv2", 115 >>,
    << "Dcr1", 118 >>, << "EllA1", 119 >>, << "EllA2", 120 >>,
    << "EllB1", 121 >>, << "EllB2", 122 >>, << "Dehr1", 123 >>,
    << "Dehr2", 124 >>, << "Devr1", 125 >>, << "Devr2", 126 >>,
    << "Fgcr", 210 >>, << "Fgcg", 211 >>, << "Fgcb", 212 >> }

registers_Register_bte ==
  { << "BteCtrl0", 144 >>, << "BteCtrl1", 145 >>, << "BteColr", 146 >>,
    << "S0Str0", 147 >>, << "S0Str1", 148 >>, << "S0Str2", 149 >>,
    << "S0Str3", 150 >>, << "S0Wth0", 151 >>, << "S0Wth1", 152 >>,
    << "S0X0", 153 >>, << "S0X1", 154 >>, << "S0Y0", 155 >>,
    << "S0Y1", 156 >>, << "S1Str0", 157 >>, << "S1Str1", 158 >>,
    << "S1Str2", 159 >>, << "S1Str3", 160 >>, << "S1Wth0", 161 >>,
    << "S1Wth1", 162 >>, << "S1X0", 163 >>, << "S1X1", 164 >>,
    << "S1Y0", 165 >>, << "S1Y1", 166 >>, << "DtStr0", 167 >>,
    << "DtStr1", 168 >>, << "DtStr2", 169 >>, << "DtStr3", 170 >>,
    << "DtWth0", 171 >>, << "DtWth1", 172 >>, << "DtX0", 173 >>,
    << "DtX1", 174 >>, << "DtY0", 175 >>, << "DtY1", 176 >>,
    << "BteWth0", 177 >>, << "BteWth1", 178 >>, << "BteHig0", 179 >>,
    << "BteHig1", 180 >> }

registers_Register_text ==
  { << "Ccr0", 204 >>, << "Ccr1", 205 >>, << "Fldr", 208 >>,
    << "F2fssr", 209 >>, << "Bgcr", 213 >>, << "Bgcg", 214 >>,
    << "Bgcb", 215 >>, << "CgramStr0", 219 >> }

registers_Register_power ==
  { << "Pmu", 223 >> }

registers_Register_ram ==
  { << "Sdrar", 224 >>, << "Sdrmd", 225 >>, << "SdrRef1", 226 >>,
    << "SdrRef2", 227 >>, << "Sdrcr", 228 >> }

registers_Register_gpio ==
  { << "Gpioad", 240 >>, << "Gpioa", 241 >>, << "Gpiob", 242 >>,
    << "Gpiocd", 243 >>, << "Gpioc", 244 >>, << "Gpiodd", 245 >>,
    << "Gpiod", 246 >> }

registers_Register ==
  registers_Register_configuration
  \cup registers_Register_pll
  \cup registers_Register_lcd
  \cup registers_Register_bte
  \cup registers_Register_text
  \cup registers_Register_power
  \cup registers_Register_ram
  \cup registers_Register_gpio

(* The names and the addresses of a copy of the enumeration. *)
Names(enum) == {r[1] : r \in enum}
Addresses(enum) == {r[2] : r \in enum}

(* No two entries share a name and no two entries share an address. *)
Injective(enum) ==
  /\ Cardinality(Names(enum)) = Cardinality(enum)
  /\ Cardinality(Addresses(enum)) = Cardinality(enum)

RegisterAddresses == Addresses(Register)

RegisterMapConsistent ==
  /\ Injective(Register)
  /\ Injective(registers_Register)
  /\ Register \subseteq registers_Register
  /\ registers_Register \ Register = registers_Register_bte
  /\ Addresses(registers_Register_bte) = 144 .. 180
  /\ RegisterAddresses \cap (144 .. 180) = {}

(* C34: the register map is injective and consistent: in each copy of the   *)
(* enumeration no two names share an address; every name of lib.rs has the  *)
(* same address in registers.rs; registers.rs adds to lib.rs exactly its    *)
(* block-transfer group, whose addresses are 0x90..0xB4; and every register *)
(* the driver addresses is one the enumeration of lib.rs names.             *)
C34_RegisterMapInjective ==
  /\ RegisterMapConsistent
  /\ (Len(log) > 0 /\ Last(log).op = "write_command") =>
       Last(log).arg \in RegisterAddresses

C34_Witness ==
  /\ op = "init"
  /\ Len(log) > 0
  /\ Last(log) = Ev("write_command", Dpcr)
  /\ << "Dpcr", Dpcr >> \in Register \cap registers_Register

(* C35: wait_sdram_ready returns true exactly when one of its first 100     *)
(* status reads has bit 2 set, and stops at the first such read: returning  *)
(* true after k reads it has made k - 1 delays of 10 ms and its last read   *)
(* had bit 2 set; it makes another attempt or returns false after 100 reads *)
(* and 100 delays only when the read before had bit 2 clear; the other bits *)
(* of the status byte take no part.                                         *)
C35_WaitSdramReadyExact ==
  (op = "wait_sdram_ready" /\ fault = "none") =>
    LET n == Len(log)
        reads == Cardinality(Positions(log, "read_status"))
        delays == Cardinality({i \in 1 .. n : log[i] = Ev("delay_ms", 10)})
        just_read == n > 0 /\ Last(log).op = "read_status"
    IN
    /\ reads + delays = n
    /\ reads <= 100
    /\ just_read => /\ delays = reads - 1
                    /\ Finished <=> Bit(ret, 2) = 1
                    /\ Finished => retval = 1
    /\ (n > 0 /\ ~just_read) => delays = reads
    /\ (Finished /\ retval = 1) => (just_read /\ Bit(ret, 2) = 1)
    /\ (Finished /\ retval = 0) => (reads = 100 /\ delays = 100)
    /\ Finished => retval \in {0, 1}
    /\ (result = "Ok") => Finished

C35_Witness ==
  /\ op = "wait_sdram_ready"
  /\ result = "Ok"
  /\ retval = 1
  /\ Len(log) = 5
  /\ ret = 4
  /\ Last(log) = Ev("read_status", 0)

C35_WitnessOtherBits ==
  /\ op = "wait_sdram_ready"
  /\ result = "running"
  /\ Len(log) = 3
  /\ Last(log) = Ev("read_status", 0)
  /\ ret = 251
  /\ ~Finished

====
